---- MODULE Spec2Model ----
(***************************************************************************)
(* Process-level model of the hardenvc programs pty (src/src/main.c) and   *)
(* tcat (src/src/tcat.c) with the library code they call (src/src/pty.c).  *)
(* The two relay processes of each program are "parent" and "child"; the   *)
(* program started on the PTY slave by pty is the target.                  *)
(***************************************************************************)
EXTENDS Integers, Sequences, FiniteSets, TLC

\* ------------------------------------------------------------------ bounds
\* largest chunk a read returns
MaxChunk == 1
\* signals sent from outside the program in a run
MaxExtSignals == 1

\* ------------------------------------------------------------- state
VARIABLES
  prog,           \* which program runs: "pty" or "tcat"
  ignore_eof,     \* option -i (ignoreeof / ieof)
  interactive,    \* main.c:150,168  isatty(STDIN) or option -n
  driver,         \* TRUE iff option -d gave a driver (driver != NULL)
  stdinIsTty,     \* whether standard input is a terminal at start
  fd_read,        \* tcat: fdin, -1 in echo mode, DeviceFd otherwise
  deviceIsTty,    \* tcat: isatty( fdin )
  pc,             \* position of each relay process
  nread,          \* each process's local nread
  nwrite,         \* loop_duplex_stdio: each process's local nwrite
  child_pids,     \* main.c:44
  sigcaught_main, \* main.c's copy of the static flag of pty.h:166
  sigcaught_pty,  \* pty.c's copy of the static flag of pty.h:166
  sigdisp,        \* per process: disposition of SIGINT and SIGTERM
  pendingSig,     \* per process: signals sent and not yet delivered
  extSignals,     \* signals the environment has sent so far
  atexitList,     \* registered exit handlers, in registration order
  exitPos,        \* per process: index of the next exit handler to run
  exitCause,      \* per process: how it left ("none" while running)
  target,         \* the target child: "none", "init" and "exec" (forked, on
                  \* its way to the target program), "live", "signaled",
                  \* "exited", "parentcode" (back in main after exec)
  termAttempts,   \* kill( child_pids, SIGTERM ) calls, all processes
  termSent,       \* per process: it sent SIGTERM to its sibling relay process
  stdinTerm,      \* line discipline of the terminal on standard input
  ptyTerm,        \* line discipline of the pseudo-terminal behind fdm
  devTerm,        \* tcat: line discipline of the device
  snapshot,       \* saved termios per snapshot name, "unset" before tty_save
  restores,       \* tty_reset calls per snapshot name
  fdOpen,         \* per process: which of "stdin", "fd_read" it has open
  zeroPhase,      \* per process: 1 once it has had a zero-length read
  taken,          \* per process: count of bytes it has read from its source
  delivered,      \* per process: positions (in the source) of the bytes that
                  \* its writes handed to the destination, in order
  codec_pc,       \* codec: position of the translation under test
  codec_u8,       \* codec: byte buffer (input of u8nprints)
  codec_str,      \* codec: character buffer (input of snprintu8)
  codec_out,      \* codec: byte buffer written by snprintu8
  codec_ret,      \* codec: value returned by the last conversion
  texit,          \* pty: how the target child ended, [cause, status]
  translate,      \* tcat: option -a (translate ASCII to HEX and back)
  lds_buffer,     \* per process: pty.c's pointer lds_buffer, "NULL" or "block"
  lds_tbuf,       \* per process: pty.c's pointer lds_tbuf, "NULL" or "block"
  freed,          \* per process and buffer: free() calls on the block that
                  \* the process allocated for it
  ptym,           \* ptym_open: [fdm, failed] the state of the master
                  \* descriptor and the library call that failed
  redirect_err,   \* do_driver: argument redirect_err (option -r)
  dd_fn,          \* do_driver: which of do_driver_argl, do_driver_argv runs
  dd_pc,          \* do_driver: position of the caller ("parent") and of the
                  \* forked driver process ("driver")
  fdtab,          \* do_driver: per process, what each descriptor refers to
  fw,             \* full_write: its arguments and locals, the bytes that
                  \* have reached the file behind fd, the returned value
  hc,             \* hcat: argv, the open input file and the locals
  dm,             \* pty -b: main's daemon start-up and
                  \* daemon_already_running
  tr,             \* tty_raw_blocking / tty_raw_timeout: the terminal's
                  \* settings, the saved copy, the result
  nb,             \* nonblock_immune_read: the call and its reads
  nl,             \* loop_duplex_stdio with nolf: the chunk on its way from
                  \* standard input to the device
  cap             \* capture: the receive loop

vars == << prog, ignore_eof, interactive, driver, stdinIsTty, fd_read,
           deviceIsTty, pc, nread, nwrite, child_pids,
           sigcaught_main, sigcaught_pty, sigdisp, pendingSig, extSignals,
           atexitList, exitPos, exitCause, target, termAttempts, termSent,
           stdinTerm, ptyTerm, devTerm, snapshot, restores, fdOpen,
           zeroPhase, taken, delivered, codec_pc, codec_u8, codec_str,
           codec_out, codec_ret, texit, translate, lds_buffer, lds_tbuf,
           freed, ptym, redirect_err, dd_fn, dd_pc, fdtab, fw, hc, dm, tr, nb, nl,
           cap >>

relayVars == << taken, delivered >>

codecVars == << codec_pc, codec_u8, codec_str, codec_out, codec_ret >>

\* the relay buffers of loop_duplex_stdio (pty.c:482-483)
heapVars == << translate, lds_buffer, lds_tbuf, freed >>

\* state of library functions that no step of the relay processes touches
\* do_driver_argl / do_driver_argv run on their own
driverVars == << redirect_err, dd_fn, dd_pc, fdtab >>

\* the library functions of pty.c that are run on their own
extraVars == << dm, tr, nb, nl, cap >>

callVars == << driverVars, fw, hc, extraVars >>

unitVars == << ptym, callVars >>

\* the processes of do_driver: the caller and the forked driver
DriverProcs == {"parent", "driver"}

\* no do_driver call is under way
DriverIdle ==
  /\ redirect_err = 0
  /\ dd_fn = "do_driver_argl"
  /\ dd_pc = [p \in DriverProcs |-> "off"]
  /\ fdtab = [p \in DriverProcs |->
                [stdin |-> "closed", stdout |-> "closed", stderr |-> "closed",
                 pipefd0 |-> "closed", pipefd1 |-> "closed"]]

\* none of the library functions run on their own is under way
\* full_write is not running; the file behind fd is empty and no write to
\* it has failed
FwIdle ==
  fw = [arg |-> << >>, buf |-> << >>, len |-> 0, remaining |-> 0, total |-> 0,
        cc |-> 0, pc |-> "off", ret |-> 0, out |-> << >>, failed |-> 0]

\* hcat is not running
HcIdle ==
  hc = [argv |-> << >>, argi |-> 0, fd |-> "closed", pos |-> 0,
        hcat_bigbuf |-> "NULL", nread |-> 0, nwritten |-> 0, retval |-> 0,
        pc |-> "off"]

\* a function that is not running
Off == [pc |-> "off"]

ExtraIdle == dm = Off /\ tr = Off /\ nb = Off /\ nl = Off /\ cap = Off

CallsIdle == DriverIdle /\ FwIdle /\ HcIdle /\ ExtraIdle

cfgVars == << prog, ignore_eof, interactive, driver, stdinIsTty, fd_read,
              deviceIsTty >>

Procs == {"parent", "child"}
Other(p) == IF p = "parent" THEN "child" ELSE "parent"

\* pid of the target child returned by fork() in pty_fork_init
TargetPid == 7
\* descriptor of the opened device in tcat
DeviceFd == 3

Snapshots == {"orig_termios", "stdin_termios", "device_termios"}

Running(p) == pc[p] \notin {"unborn", "exiting", "dead", "replaced"}
Gone(p) == pc[p] \in {"unborn", "dead", "replaced"}

\* the target child is a process that a signal can reach
TargetAlive == target \in {"init", "exec", "live", "parentcode"}

\* ------------------------------------------------------- exit and signals

\* exit( status ): the registered handlers run in reverse order of
\* registration; with none registered the process is gone at once.
DoExit(p, cause) ==
  /\ pc' = [pc EXCEPT ![p] = IF Len(atexitList) = 0 THEN "dead" ELSE "exiting"]
  /\ exitPos' = [exitPos EXCEPT ![p] = Len(atexitList)]
  /\ exitCause' = [exitCause EXCEPT ![p] = cause]

\* err_sys(): message, then exit( EXIT_FAILURE )
err_sys(p) == DoExit(p, "err_sys")

\* kill( pid of relay process q, SIGTERM ) by p. A process that is gone is a
\* zombie or no longer exists; the signal has no effect on it.
KillSibling(p) ==
  /\ pendingSig' = [pendingSig EXCEPT ![Other(p)] =
                      IF Gone(Other(p)) THEN @ ELSE @ \cup {"TERM"}]
  /\ termSent' = [termSent EXCEPT ![p] = TRUE]

\* ---------------------------------------------------------- exit handlers

\* main.c:143  detached = 0 (option -b, the daemon mode, is not taken)
detached == 0

\* tty_reset( fd, load_termios, load_winsz ): the call is counted for the
\* snapshot it loads; the new line discipline of the terminal behind fd is
\* the loaded one.
tty_reset(snap) == restores' = [restores EXCEPT ![snap] = @ + 1]

\* pty's exit handler
cleanup(p) ==
  /\ IF child_pids > 0
       THEN /\ termAttempts' = termAttempts + 1
            /\ target' = IF TargetAlive THEN "signaled" ELSE target
       ELSE UNCHANGED << termAttempts, target >>
  /\ IF 0 = detached
       THEN /\ tty_reset("orig_termios")
            /\ ptyTerm' = snapshot["orig_termios"]
       ELSE UNCHANGED << restores, ptyTerm >>
  /\ UNCHANGED << stdinTerm, devTerm, freed >>

\* tcat's exit handler for standard input. tcsetattr fails on a descriptor
\* the process has closed or that is no terminal any more.
restore_stdin(p) ==
  /\ tty_reset("stdin_termios")
  /\ stdinTerm' = IF "stdin" \in fdOpen[p] /\ ~driver
                    THEN snapshot["stdin_termios"] ELSE stdinTerm
  /\ UNCHANGED << termAttempts, target, ptyTerm, devTerm, freed >>

\* tcat's exit handler for the device
restore_device(p) ==
  /\ tty_reset("device_termios")
  /\ devTerm' = IF "fd_read" \in fdOpen[p]
                  THEN snapshot["device_termios"] ELSE devTerm
  /\ UNCHANGED << termAttempts, target, ptyTerm, stdinTerm, freed >>

\* tcat's cleanup() frees the driver strings only
tcat_cleanup(p) ==
  UNCHANGED << termAttempts, target, restores, ptyTerm, stdinTerm, devTerm,
               freed >>

\* free( ptr ): nothing on NULL, otherwise one more free() of the block;
\* count is the count of free() calls on the block so far
free(ptr, count) == IF ptr = "NULL" THEN count ELSE count + 1

\* pty.c:487-501  _bfrees(): free( lds_tbuf ), free( lds_buffer ); the
\* pointers keep their values
_bfrees(p) ==
  /\ freed' = [freed EXCEPT ![p] =
                 [lds_tbuf   |-> free(lds_tbuf[p], @.lds_tbuf),
                  lds_buffer |-> free(lds_buffer[p], @.lds_buffer)]]
  /\ UNCHANGED << termAttempts, target, restores, ptyTerm, stdinTerm,
                  devTerm >>

\* _bfrees() run by p frees a block that was freed before: the behaviour of
\* the second free() is undefined.
DoubleFree(p) ==
  \/ lds_tbuf[p] # "NULL" /\ freed[p].lds_tbuf >= 1
  \/ lds_buffer[p] # "NULL" /\ freed[p].lds_buffer >= 1

\* One registered handler runs; after the first registered one the process
\* is gone. A second free() of a block either goes unnoticed or is detected
\* by the allocator, which aborts the process: no further handler runs.
RunExitHandler(p) ==
  /\ pc[p] = "exiting"
  /\ exitPos[p] >= 1
  /\ LET h == atexitList[exitPos[p]] IN
       CASE h = "cleanup"        -> cleanup(p)
         [] h = "restore_stdin"  -> restore_stdin(p)
         [] h = "restore_device" -> restore_device(p)
         [] h = "tcat_cleanup"   -> tcat_cleanup(p)
         [] h = "_bfrees"        -> _bfrees(p)
  /\ exitPos' = [exitPos EXCEPT ![p] = @ - 1]
  /\ \/ /\ pc' = [pc EXCEPT ![p] = IF exitPos[p] = 1 THEN "dead" ELSE "exiting"]
        /\ UNCHANGED exitCause
     \/ /\ atexitList[exitPos[p]] = "_bfrees"
        /\ DoubleFree(p)
        /\ pc' = [pc EXCEPT ![p] = "dead"]
        /\ exitCause' = [exitCause EXCEPT ![p] = "aborted"]
  /\ UNCHANGED << cfgVars, relayVars, codecVars, unitVars, texit,
                  translate, lds_buffer, lds_tbuf, nread, nwrite, child_pids,
                  sigcaught_main, sigcaught_pty, sigdisp, pendingSig,
                  extSignals, atexitList, termSent, snapshot,
                  fdOpen, zeroPhase >>

\* ---------------------------------------------------------------- signals

\* Default action of SIGINT and SIGTERM: the process is terminated at once,
\* no exit handler runs.
DeliverDefault(p, s) ==
  /\ ~Gone(p)
  /\ sigdisp[p][s] = "default"
  /\ pc' = [pc EXCEPT ![p] = "dead"]
  /\ exitCause' = [exitCause EXCEPT ![p] = "killed"]
  /\ UNCHANGED << nread, exitPos, sigcaught_pty >>

\* exit() is entered from a signal handler while exit() runs the handlers:
\* undefined by POSIX (note of main.c:63-66). The C library has taken the
\* handlers that were started off its list: those not yet started run, and a
\* handler the signal found at its first instruction is abandoned. The
\* status is that of the last call.
exit_in_exit(p) ==
  /\ pc[p] = "exiting"
  /\ exitCause' = [exitCause EXCEPT ![p] = "exit_in_exit"]
  /\ \E k \in {exitPos[p], exitPos[p] - 1} :
       /\ exitPos' = [exitPos EXCEPT ![p] = k]
       /\ pc' = [pc EXCEPT ![p] = IF k = 0 THEN "dead" ELSE "exiting"]

\* pty.c:171  sig_int(): exit( EXIT_SUCCESS ); signal_intr() (pty.c:202)
\* leaves the handler installed, also while the exit handlers run
sig_int(p, s) ==
  /\ sigdisp[p][s] = "sig_int"
  /\ \/ Running(p) /\ DoExit(p, "sig_int")
     \/ exit_in_exit(p)
  /\ UNCHANGED << nread, sigcaught_pty >>

\* Where a process that has sig_term installed is when its read is
\* interrupted: signal_intr() sets no SA_RESTART, the read returns -1.
AfterInterruptedRead(p) ==
  IF pc[p] = "p_read" THEN "p_after" ELSE "l_after"

\* pty.c:158  sig_term(): the handler sets pty.c's flag. A blocked read
\* returns -1 (EINTR); a signal that arrives between two calls, or during a
\* write, only sets the flag.
sig_term(p, s) ==
  /\ ~Gone(p)
  /\ sigdisp[p][s] = "sig_term"
  /\ sigcaught_pty' = 1
  /\ \/ /\ pc[p] \in {"p_read", "l_read"}
        /\ pc' = [pc EXCEPT ![p] = AfterInterruptedRead(p)]
        /\ nread' = [nread EXCEPT ![p] = 0 - 1]
     \/ UNCHANGED << pc, nread >>
  /\ UNCHANGED << exitPos, exitCause >>

\* Signal s is delivered to process p: what happens is its disposition.
Handle(p, s) ==
  \/ DeliverDefault(p, s)
  \/ sig_int(p, s)
  \/ sig_term(p, s)

\* The environment sends SIGINT or SIGTERM to one process.
ExtSignal(p, s) ==
  /\ extSignals < MaxExtSignals
  /\ extSignals' = extSignals + 1
  /\ Handle(p, s)
  /\ UNCHANGED << cfgVars, relayVars, codecVars, heapVars, unitVars, texit,
                  nwrite, child_pids, sigcaught_main, sigdisp,
                  pendingSig, atexitList, target, termAttempts, termSent,
                  stdinTerm, ptyTerm, devTerm, snapshot, restores, fdOpen,
                  zeroPhase >>

\* A SIGTERM sent by the sibling relay process is delivered.
DeliverPending(p) ==
  /\ "TERM" \in pendingSig[p]
  /\ pendingSig' = [pendingSig EXCEPT ![p] = @ \ {"TERM"}]
  /\ Handle(p, "TERM")
  /\ UNCHANGED << cfgVars, relayVars, codecVars, heapVars, unitVars, texit,
                  nwrite, child_pids, sigcaught_main, sigdisp,
                  extSignals, atexitList, target, termAttempts, termSent,
                  stdinTerm, ptyTerm, devTerm, snapshot, restores, fdOpen,
                  zeroPhase >>

\* ------------------------------------------------------------ environment

\* The target program ends by itself.
TargetExits ==
  /\ target = "live"
  /\ target' = "exited"
  /\ UNCHANGED << cfgVars, relayVars, codecVars, heapVars, unitVars, texit,
                  pc, nread, nwrite, child_pids,
                  sigcaught_main, sigcaught_pty, sigdisp, pendingSig,
                  extSignals, atexitList, exitPos, exitCause, termAttempts,
                  termSent, stdinTerm, ptyTerm, devTerm, snapshot, restores,
                  fdOpen, zeroPhase >>

\* ------------------------------------------------------------ pty: main()

\* main.c:219  tty_save( STDIN_FILENO, &orig_termios, &orig_size ): tcgetattr
\* fails on a standard input that is no terminal, and err_sys() exits.
tty_save_pty ==
  /\ prog = "pty"
  /\ pc["parent"] = "m_save"
  /\ IF stdinIsTty
       THEN /\ snapshot' = [snapshot EXCEPT !["orig_termios"] = stdinTerm]
            /\ pc' = [pc EXCEPT !["parent"] = "m_fork_init"]
            /\ UNCHANGED << exitPos, exitCause >>
       ELSE /\ err_sys("parent")
            /\ UNCHANGED snapshot
  /\ UNCHANGED << relayVars, codecVars, heapVars, unitVars, texit,
                  prog, ignore_eof, interactive, driver, stdinIsTty, fd_read,
                  deviceIsTty, nread, nwrite, child_pids,
                  sigcaught_main, sigcaught_pty, sigdisp, pendingSig,
                  extSignals, atexitList, target, termAttempts, termSent,
                  stdinTerm, ptyTerm, devTerm, restores, fdOpen, zeroPhase >>

\* the library calls of ptym_open, in the order it makes them
PtymCalls == << "posix_openpt", "grantpt", "unlockpt", "ptsname" >>

\* errno as a library call that failed leaves it; "0" is no error
Errnos == {"EBADF", "EINVAL", "ENOTTY"}

\* assert.h, compiled without NDEBUG (the Makefile defines none):
\* assert_perror( errnum ) prints the error text and calls abort() when
\* errnum is not zero. TRUE iff it aborts.
assert_perror(errnum) == errnum # "0"

\* pty.c:758-816  ptym_open() when the library call `failed` fails with
\* errno e ("none": every call succeeds). The result is the state of the
\* master descriptor and how the function ends: it returns the descriptor
\* ("fdm"), returns -1, or the process is aborted inside it.
ptym_open(failed, e) ==
  IF failed = "none"
    THEN [fdm |-> "open", failed |-> failed, ends |-> "fdm"]
  ELSE IF failed = PtymCalls[1]
    THEN [fdm |-> "unopened", failed |-> failed, ends |-> "-1"]
  ELSE IF assert_perror(e)
    THEN [fdm |-> "open", failed |-> failed, ends |-> "abort"]
  ELSE [fdm |-> "closed", failed |-> failed, ends |-> "-1"]

\* main.c:223  pty_fork_init(): the master is opened and the target child is
\* forked; the parent gets the child's pid. A master that cannot be opened
\* ends in err_sys() (pty.c:933). A fork that fails (pty.c:942-945) closes
\* the master, prints a message with err_msg(), which returns, sets pid = 0
\* and runs on into case 0.
pty_fork_init ==
  /\ pc["parent"] = "m_fork_init"
  /\ \E failed \in {"none"} \cup {PtymCalls[i] : i \in 1..Len(PtymCalls)},
        e \in Errnos :
       LET r == ptym_open(failed, e) IN
         /\ CASE r.ends = "fdm" ->
                  \/ /\ target' = "init"
                     /\ pc' = [pc EXCEPT !["parent"] = "m_record"]
                     /\ ptym' = [fdm |-> r.fdm, failed |-> r.failed]
                     /\ UNCHANGED << exitPos, exitCause >>
                  \/ /\ pc' = [pc EXCEPT !["parent"] = "f_init"]
                     /\ ptym' = [fdm |-> "closed", failed |-> r.failed]
                     /\ UNCHANGED << target, exitPos, exitCause >>
              [] r.ends = "-1" ->
                  /\ err_sys("parent")
                  /\ ptym' = [fdm |-> r.fdm, failed |-> r.failed]
                  /\ UNCHANGED target
              [] r.ends = "abort" ->
                  /\ pc' = [pc EXCEPT !["parent"] = "dead"]
                  /\ exitCause' = [exitCause EXCEPT !["parent"] = "aborted"]
                  /\ ptym' = [fdm |-> r.fdm, failed |-> r.failed]
                  /\ UNCHANGED << target, exitPos >>
  /\ UNCHANGED << relayVars, codecVars, heapVars, callVars, texit,
                  prog, ignore_eof, interactive, driver, stdinIsTty, fd_read,
                  deviceIsTty, nread, nwrite, child_pids,
                  sigcaught_main, sigcaught_pty, sigdisp, pendingSig,
                  extSignals, atexitList, termAttempts, termSent, stdinTerm,
                  ptyTerm, devTerm, snapshot, restores, fdOpen, zeroPhase >>

\* main.c:258  child_pids = pid
main_record ==
  /\ pc["parent"] = "m_record"
  /\ child_pids' = TargetPid
  /\ pc' = [pc EXCEPT !["parent"] = "m_atexit"]
  /\ UNCHANGED << relayVars, codecVars, heapVars, unitVars, texit,
                  prog, ignore_eof, interactive, driver, stdinIsTty, fd_read,
                  deviceIsTty, nread, nwrite, sigcaught_main,
                  sigcaught_pty, sigdisp, pendingSig, extSignals, atexitList,
                  exitPos, exitCause, target, termAttempts, termSent,
                  stdinTerm, ptyTerm, devTerm, snapshot, restores, fdOpen,
                  zeroPhase >>

\* main.c:265  atexit( cleanup )
main_atexit ==
  /\ pc["parent"] = "m_atexit"
  /\ \/ /\ atexitList' = Append(atexitList, "cleanup")
        /\ pc' = [pc EXCEPT !["parent"] = "m_sigint"]
        /\ UNCHANGED << exitPos, exitCause >>
     \/ /\ err_sys("parent")
        /\ UNCHANGED atexitList
  /\ UNCHANGED << relayVars, codecVars, heapVars, unitVars, texit,
                  prog, ignore_eof, interactive, driver, stdinIsTty, fd_read,
                  deviceIsTty, nread, nwrite, child_pids,
                  sigcaught_main, sigcaught_pty, sigdisp, pendingSig,
                  extSignals, target, termAttempts, termSent, stdinTerm,
                  ptyTerm, devTerm, snapshot, restores, fdOpen, zeroPhase >>

\* main.c:268  signal_intr( SIGINT, sig_int )
main_sigint ==
  /\ pc["parent"] = "m_sigint"
  /\ \/ /\ sigdisp' = [sigdisp EXCEPT !["parent"]["INT"] = "sig_int"]
        /\ pc' = [pc EXCEPT !["parent"] = "m_raw"]
        /\ UNCHANGED << exitPos, exitCause >>
     \/ /\ err_sys("parent")
        /\ UNCHANGED sigdisp
  /\ UNCHANGED << relayVars, codecVars, heapVars, unitVars, texit,
                  prog, ignore_eof, interactive, driver, stdinIsTty, fd_read,
                  deviceIsTty, nread, nwrite, child_pids,
                  sigcaught_main, sigcaught_pty, pendingSig, extSignals,
                  atexitList, target, termAttempts, termSent, stdinTerm,
                  ptyTerm, devTerm, snapshot, restores, fdOpen, zeroPhase >>

\* main.c:282  with a driver, or when not interactive, standard input is set
\* to raw mode; tty_raw_blocking() returning -1 (the terminal set back to
\* what it was) ends in err_sys().
main_raw ==
  /\ pc["parent"] = "m_raw"
  /\ IF driver \/ (0 = interactive)
       THEN \/ /\ stdinTerm' = "raw"
               /\ pc' = [pc EXCEPT !["parent"] = "m_driver"]
               /\ UNCHANGED << exitPos, exitCause >>
            \/ /\ err_sys("parent")
               /\ UNCHANGED stdinTerm
       ELSE /\ pc' = [pc EXCEPT !["parent"] = "m_driver"]
            /\ UNCHANGED << stdinTerm, exitPos, exitCause >>
  /\ UNCHANGED << relayVars, codecVars, heapVars, unitVars, texit,
                  prog, ignore_eof, interactive, driver, stdinIsTty, fd_read,
                  deviceIsTty, nread, nwrite, child_pids,
                  sigcaught_main, sigcaught_pty, sigdisp, pendingSig,
                  extSignals, atexitList, target, termAttempts, termSent,
                  ptyTerm, devTerm, snapshot, restores, fdOpen, zeroPhase >>

\* main.c:288  do_driver_argl(): standard input and output of the parent
\* become the socket to the driver; a failure ends in err_sys().
main_driver ==
  /\ pc["parent"] = "m_driver"
  /\ \/ /\ pc' = [pc EXCEPT !["parent"] = "p_fork"]
        /\ UNCHANGED << exitPos, exitCause >>
     \/ /\ driver
        /\ err_sys("parent")
  /\ UNCHANGED << relayVars, codecVars, heapVars, unitVars, texit,
                  prog, ignore_eof, interactive, driver, stdinIsTty, fd_read,
                  deviceIsTty, nread, nwrite, child_pids,
                  sigcaught_main, sigcaught_pty, sigdisp, pendingSig,
                  extSignals, atexitList, target, termAttempts, termSent,
                  stdinTerm, ptyTerm, devTerm, snapshot, restores, fdOpen,
                  zeroPhase >>

\* main.c:308  fork() in ptym_process_stdio: the child inherits the signal
\* dispositions, the exit handlers and child_pids, closes standard output
\* and starts to read.
ptym_fork ==
  /\ pc["parent"] = "p_fork"
  /\ \/ /\ pc' = [pc EXCEPT !["parent"] = "p_sigterm", !["child"] = "c_read"]
        /\ sigdisp' = [sigdisp EXCEPT !["child"] = sigdisp["parent"]]
        /\ UNCHANGED << exitPos, exitCause >>
     \/ /\ err_sys("parent")
        /\ UNCHANGED sigdisp
  /\ UNCHANGED << relayVars, codecVars, heapVars, unitVars, texit,
                  prog, ignore_eof, interactive, driver, stdinIsTty, fd_read,
                  deviceIsTty, nread, nwrite, child_pids,
                  sigcaught_main, sigcaught_pty, pendingSig, extSignals,
                  atexitList, target, termAttempts, termSent, stdinTerm,
                  ptyTerm, devTerm, snapshot, restores, fdOpen, zeroPhase >>


\* ------------------------------------- pty: the child side of pty_fork_init

\* stdlib.h: the status err_sys() hands to exit() (pty.c:101)
EXIT_FAILURE == 1

\* the steps of the child path that end in err_sys() when they fail:
\* setsid (pty.c:951), ptys_open (pty.c:955), dup2 (pty.c:961-968), and the
\* replacement of the process image in main (main.c:247-251)
InitSteps == {"setsid", "ptys_open", "dup2"}

\* exit status of a child that fails at the given step: every one of them
\* ends in err_sys(), that is exit( EXIT_FAILURE )
FatalStatus(step) == EXIT_FAILURE

\* values execvp() or execlp() can return; on success they do not return
ExecReturns == {0 - 1}

\* A negated test of the result of exec: the error is not noticed.
ExecFailed_IfZero(r) == r = 0

\* main.c:247  if ( execvp( argv[optind], &argv[optind] ) ) err_sys( ... )
ExecFailed(r) == r # 0

\* pty.c:947-975  the forked child makes a session, opens the slave and
\* binds standard input, output and error to it; pty_fork_init then returns
\* 0 to main.
target_init ==
  /\ target = "init"
  /\ \/ /\ target' = "exec"
        /\ UNCHANGED texit
     \/ \E step \in InitSteps :
          /\ target' = "exited"
          /\ texit' = [cause |-> step, status |-> FatalStatus(step)]
  /\ UNCHANGED << heapVars, unitVars, prog, ignore_eof, interactive, driver, stdinIsTty, fd_read,
                  deviceIsTty, pc, nread, nwrite, child_pids, sigcaught_main,
                  sigcaught_pty, sigdisp, pendingSig, extSignals, atexitList,
                  exitPos, exitCause, termAttempts, termSent, stdinTerm,
                  ptyTerm, devTerm, snapshot, restores, fdOpen, zeroPhase,
                  taken, delivered, codec_pc, codec_u8, codec_str, codec_out,
                  codec_ret >>

\* main.c:236-253  the child replaces its process image with the target
\* program; a call of exec that returns ends in err_sys().
target_exec ==
  /\ target = "exec"
  /\ \/ /\ target' = "live"
        /\ UNCHANGED texit
     \/ \E r \in ExecReturns :
          IF ExecFailed(r)
            THEN /\ target' = "exited"
                 /\ texit' = [cause |-> "exec", status |-> FatalStatus("exec")]
            ELSE /\ target' = "parentcode"
                 /\ UNCHANGED texit
  /\ UNCHANGED << heapVars, unitVars, prog, ignore_eof, interactive, driver, stdinIsTty, fd_read,
                  deviceIsTty, pc, nread, nwrite, child_pids, sigcaught_main,
                  sigcaught_pty, sigdisp, pendingSig, extSignals, atexitList,
                  exitPos, exitCause, termAttempts, termSent, stdinTerm,
                  ptyTerm, devTerm, snapshot, restores, fdOpen, zeroPhase,
                  taken, delivered, codec_pc, codec_u8, codec_str, codec_out,
                  codec_ret >>

\* pty.c:942-975  after a failed fork the calling process runs on into
\* case 0 with pid = 0: it makes the session, opens the slave and binds its
\* own standard input, output and error to it, then returns 0 to main.
fork_failed_init ==
  /\ pc["parent"] = "f_init"
  /\ \/ /\ pc' = [pc EXCEPT !["parent"] = "f_exec"]
        /\ UNCHANGED << exitPos, exitCause >>
     \/ err_sys("parent")
  /\ UNCHANGED << heapVars, unitVars, prog, ignore_eof, interactive, driver, stdinIsTty, fd_read,
                  deviceIsTty, nread, nwrite, child_pids, sigcaught_main,
                  sigcaught_pty, sigdisp, pendingSig, extSignals, atexitList,
                  target, termAttempts, termSent, stdinTerm, ptyTerm, devTerm,
                  snapshot, restores, fdOpen, zeroPhase, taken, delivered,
                  codec_pc, codec_u8, codec_str, codec_out, codec_ret, texit
                  >>

\* main.c:236-253  with pid = 0 the calling process itself calls exec: its
\* image is replaced by the target program, or exec returns.
fork_failed_exec ==
  /\ pc["parent"] = "f_exec"
  /\ \/ /\ pc' = [pc EXCEPT !["parent"] = "replaced"]
        /\ UNCHANGED << exitPos, exitCause >>
     \/ \E r \in ExecReturns :
          IF ExecFailed(r)
            THEN err_sys("parent")
            ELSE /\ pc' = [pc EXCEPT !["parent"] = "m_record"]
                 /\ UNCHANGED << exitPos, exitCause >>
  /\ UNCHANGED << heapVars, unitVars, prog, ignore_eof, interactive, driver, stdinIsTty, fd_read,
                  deviceIsTty, nread, nwrite, child_pids, sigcaught_main,
                  sigcaught_pty, sigdisp, pendingSig, extSignals, atexitList,
                  target, termAttempts, termSent, stdinTerm, ptyTerm, devTerm,
                  snapshot, restores, fdOpen, zeroPhase, taken, delivered,
                  codec_pc, codec_u8, codec_str, codec_out, codec_ret, texit
                  >>

PtyTarget ==
  \/ target_init
  \/ target_exec

\* ------------------------------------------- pty: ptym_process_stdio()

\* result of read( fd, buf, BUFLEN ): an error (-1), end of file (0) or the
\* size of the chunk read. A read may also block for ever: no read action
\* is ever forced to happen.
ReadResults == (0 - 1)..MaxChunk

\* history of zero-length reads, kept for the properties
AfterRead(z, n) == IF n = 0 /\ z = 0 THEN 1 ELSE z

\* result of write( fd, buf, n ): an error, or the count of bytes accepted
WriteResults(n) == {0 - 1} \cup (1..n)

\* A child loop that a zero-length read always ends, whatever ignore_eof.
ChildLoopNext_EofEndsLoop(n) ==
  IF n <= 0 THEN "c_after" ELSE "c_write"

\* main.c:318  child: nread = read( STDIN_FILENO ); the loop ends on -1, and
\* on 0 unless ignore_eof is set.
ChildLoopNext(n) ==
  IF n < 0 THEN "c_after"
  ELSE IF 0 = n THEN (IF 0 = ignore_eof THEN "c_after" ELSE "c_read")
  ELSE "c_write"

ptym_child_read ==
  /\ pc["child"] = "c_read"
  /\ \E n \in ReadResults :
       /\ nread' = [nread EXCEPT !["child"] = n]
       /\ zeroPhase' = [zeroPhase EXCEPT !["child"] = AfterRead(@, n)]
       /\ pc' = [pc EXCEPT !["child"] = ChildLoopNext(n)]
  /\ UNCHANGED << relayVars, codecVars, heapVars, unitVars, texit,
                  prog, ignore_eof, interactive, driver, stdinIsTty, fd_read,
                  deviceIsTty, nwrite, child_pids, sigcaught_main,
                  sigcaught_pty, sigdisp, pendingSig, extSignals, atexitList,
                  exitPos, exitCause, target, termAttempts, termSent,
                  stdinTerm, ptyTerm, devTerm, snapshot, restores, fdOpen >>

\* main.c:323  child: only a negative result of write() ends the loop
ChildWriteFailed(w) == 0 > w

ptym_child_write ==
  /\ pc["child"] = "c_write"
  /\ \E w \in WriteResults(nread["child"]) :
       IF ChildWriteFailed(w)
         THEN /\ pc' = [pc EXCEPT !["child"] = "c_after"]
         ELSE /\ pc' = [pc EXCEPT !["child"] = "c_read"]
  /\ UNCHANGED << relayVars, codecVars, heapVars, unitVars, texit,
                  prog, ignore_eof, interactive, driver, stdinIsTty, fd_read,
                  deviceIsTty, nread, nwrite, child_pids, sigcaught_main,
                  sigcaught_pty, sigdisp, pendingSig, extSignals, atexitList,
                  exitPos, exitCause, target, termAttempts, termSent,
                  stdinTerm, ptyTerm, devTerm, snapshot, restores, fdOpen,
                  zeroPhase >>

\* main.c:342  child, after its loop: with ignore_eof set it sends SIGTERM
\* to the parent
ChildNotifies == 1 = ignore_eof

ptym_child_after ==
  /\ pc["child"] = "c_after"
  /\ IF ChildNotifies
       THEN KillSibling("child")
       ELSE UNCHANGED << pendingSig, termSent >>
  /\ pc' = [pc EXCEPT !["child"] = "c_chk"]
  /\ UNCHANGED << relayVars, codecVars, heapVars, unitVars, texit,
                  prog, ignore_eof, interactive, driver, stdinIsTty, fd_read,
                  deviceIsTty, nread, nwrite, child_pids, sigcaught_main,
                  sigcaught_pty, sigdisp, extSignals, atexitList, exitPos,
                  exitCause, target, termAttempts, stdinTerm, ptyTerm,
                  devTerm, snapshot, restores, fdOpen, zeroPhase >>

\* main.c:353  child: err_sys() if 0 < nread, exit( 0 ) otherwise
ptym_child_exit ==
  /\ pc["child"] = "c_chk"
  /\ IF 0 < nread["child"]
       THEN err_sys("child")
       ELSE DoExit("child", "exit0")
  /\ UNCHANGED << relayVars, codecVars, heapVars, unitVars, texit,
                  prog, ignore_eof, interactive, driver, stdinIsTty, fd_read,
                  deviceIsTty, nread, nwrite, child_pids, sigcaught_main,
                  sigcaught_pty, sigdisp, pendingSig, extSignals, atexitList,
                  target, termAttempts, termSent, stdinTerm, ptyTerm, devTerm,
                  snapshot, restores, fdOpen, zeroPhase >>

\* main.c:369  parent: signal_intr( SIGTERM, sig_term )
ptym_sigterm ==
  /\ pc["parent"] = "p_sigterm"
  /\ \/ /\ sigdisp' = [sigdisp EXCEPT !["parent"]["TERM"] = "sig_term"]
        /\ pc' = [pc EXCEPT !["parent"] = "p_read"]
        /\ UNCHANGED << exitPos, exitCause >>
     \/ /\ err_sys("parent")
        /\ UNCHANGED sigdisp
  /\ UNCHANGED << relayVars, codecVars, heapVars, unitVars, texit,
                  prog, ignore_eof, interactive, driver, stdinIsTty, fd_read,
                  deviceIsTty, nread, nwrite, child_pids, sigcaught_main,
                  sigcaught_pty, pendingSig, extSignals, atexitList, target,
                  termAttempts, termSent, stdinTerm, ptyTerm, devTerm,
                  snapshot, restores, fdOpen, zeroPhase >>

\* main.c:372  parent abort condition
pac == IF ignore_eof > 0 THEN 0 - 1 ELSE 0

\* main.c:378  parent: while ( pac < (nread = read( pty_amaster )) )
ParentLoopNext(n) ==
  IF pac < n THEN (IF n > 0 THEN "p_write" ELSE "p_read") ELSE "p_after"

ptym_parent_read ==
  /\ pc["parent"] = "p_read"
  /\ \E n \in ReadResults :
       /\ nread' = [nread EXCEPT !["parent"] = n]
       /\ zeroPhase' = [zeroPhase EXCEPT !["parent"] = AfterRead(@, n)]
       /\ pc' = [pc EXCEPT !["parent"] = ParentLoopNext(n)]
  /\ UNCHANGED << relayVars, codecVars, heapVars, unitVars, texit,
                  prog, ignore_eof, interactive, driver, stdinIsTty, fd_read,
                  deviceIsTty, nwrite, child_pids, sigcaught_main,
                  sigcaught_pty, sigdisp, pendingSig, extSignals, atexitList,
                  exitPos, exitCause, target, termAttempts, termSent,
                  stdinTerm, ptyTerm, devTerm, snapshot, restores, fdOpen >>

\* main.c:380  parent: a result of write() other than nread ends the loop
ParentWriteFailed(w) == w # nread["parent"]

ptym_parent_write ==
  /\ pc["parent"] = "p_write"
  /\ \E w \in WriteResults(nread["parent"]) :
       IF ParentWriteFailed(w)
         THEN /\ pc' = [pc EXCEPT !["parent"] = "p_after"]
         ELSE /\ pc' = [pc EXCEPT !["parent"] = "p_read"]
  /\ UNCHANGED << relayVars, codecVars, heapVars, unitVars, texit,
                  prog, ignore_eof, interactive, driver, stdinIsTty, fd_read,
                  deviceIsTty, nread, nwrite, child_pids, sigcaught_main,
                  sigcaught_pty, sigdisp, pendingSig, extSignals, atexitList,
                  exitPos, exitCause, target, termAttempts, termSent,
                  stdinTerm, ptyTerm, devTerm, snapshot, restores, fdOpen,
                  zeroPhase >>

\* main.c:389  parent, after its loop: kill( child, SIGTERM ) if main.c's
\* sigcaught is 0
ParentNotifies == 0 = sigcaught_main

ptym_parent_after ==
  /\ pc["parent"] = "p_after"
  /\ IF ParentNotifies
       THEN KillSibling("parent")
       ELSE UNCHANGED << pendingSig, termSent >>
  /\ pc' = [pc EXCEPT !["parent"] = "p_chk"]
  /\ UNCHANGED << relayVars, codecVars, heapVars, unitVars, texit,
                  prog, ignore_eof, interactive, driver, stdinIsTty, fd_read,
                  deviceIsTty, nread, nwrite, child_pids, sigcaught_main,
                  sigcaught_pty, sigdisp, extSignals, atexitList, exitPos,
                  exitCause, target, termAttempts, stdinTerm, ptyTerm,
                  devTerm, snapshot, restores, fdOpen, zeroPhase >>

\* main.c:392  parent: err_sys() if 0 < nread; otherwise it returns to
\* main(), which calls exit( 0 ) (main.c:294)
ptym_parent_return ==
  /\ pc["parent"] = "p_chk"
  /\ IF 0 < nread["parent"]
       THEN err_sys("parent")
       ELSE DoExit("parent", "return")
  /\ UNCHANGED << relayVars, codecVars, heapVars, unitVars, texit,
                  prog, ignore_eof, interactive, driver, stdinIsTty, fd_read,
                  deviceIsTty, nread, nwrite, child_pids, sigcaught_main,
                  sigcaught_pty, sigdisp, pendingSig, extSignals, atexitList,
                  target, termAttempts, termSent, stdinTerm, ptyTerm, devTerm,
                  snapshot, restores, fdOpen, zeroPhase >>

\* ------------------------------------------------------ pty: specification

InitCommon ==
  /\ ignore_eof \in {0, 1}
  /\ interactive \in {0, 1}
  /\ stdinIsTty \in BOOLEAN
  /\ nread = [p \in Procs |-> 0]
  /\ nwrite = [p \in Procs |-> 0]
  /\ child_pids = 0
  /\ sigcaught_main = 0
  /\ sigcaught_pty = 0
  /\ sigdisp = [p \in Procs |-> [INT |-> "default", TERM |-> "default"]]
  /\ pendingSig = [p \in Procs |-> {}]
  /\ extSignals = 0
  /\ atexitList = << >>
  /\ exitPos = [p \in Procs |-> 0]
  /\ exitCause = [p \in Procs |-> "none"]
  /\ target = "none"
  /\ termAttempts = 0
  /\ termSent = [p \in Procs |-> FALSE]
  /\ stdinTerm = "cooked"
  /\ ptyTerm = "ptydefault"
  /\ devTerm = "devdefault"
  /\ snapshot = [s \in Snapshots |-> "unset"]
  /\ restores = [s \in Snapshots |-> 0]
  /\ fdOpen = [p \in Procs |-> {"stdin", "fd_read"}]
  /\ zeroPhase = [p \in Procs |-> 0]
  /\ taken = [p \in Procs |-> 0]
  /\ delivered = [p \in Procs |-> << >>]
  /\ codec_pc = "off"
  /\ codec_u8 = << >>
  /\ codec_str = << >>
  /\ codec_out = << >>
  /\ codec_ret = 0
  /\ texit = [cause |-> "none", status |-> 0]
  /\ lds_buffer = [p \in Procs |-> "NULL"]
  /\ lds_tbuf = [p \in Procs |-> "NULL"]
  /\ freed = [p \in Procs |-> [lds_buffer |-> 0, lds_tbuf |-> 0]]
  /\ ptym = [fdm |-> "unopened", failed |-> "none"]
  /\ CallsIdle

\* main.c:143-152  the state of pty when the options are parsed
InitPty ==
  /\ prog = "pty"
  /\ translate = 0
  /\ fd_read = 0 - 1
  /\ deviceIsTty = FALSE
  /\ driver \in BOOLEAN
  /\ pc = [p \in Procs |-> IF p = "parent" THEN "m_save" ELSE "unborn"]
  /\ InitCommon

Signals ==
  \/ \E p \in Procs, s \in {"INT", "TERM"} : ExtSignal(p, s)
  \/ \E p \in Procs : DeliverPending(p)

Environment == TargetExits

PtyParent ==
  \/ tty_save_pty
  \/ pty_fork_init
  \/ fork_failed_init
  \/ fork_failed_exec
  \/ main_record
  \/ main_atexit
  \/ main_sigint
  \/ main_raw
  \/ main_driver
  \/ ptym_fork
  \/ ptym_sigterm
  \/ ptym_parent_read
  \/ ptym_parent_write
  \/ ptym_parent_after
  \/ ptym_parent_return
  \/ RunExitHandler("parent")

PtyChild ==
  \/ ptym_child_read
  \/ ptym_child_write
  \/ ptym_child_after
  \/ ptym_child_exit
  \/ RunExitHandler("child")

NextPty == PtyParent \/ PtyChild \/ PtyTarget \/ Signals \/ Environment

SpecPty == InitPty /\ [][NextPty]_vars


\* ----------------------------------------------------------- tcat: main()

\* tcat.c:138  atexit( cleanup )
tcat_atexit ==
  /\ prog = "tcat"
  /\ pc["parent"] = "t_atexit"
  /\ \/ /\ atexitList' = Append(atexitList, "tcat_cleanup")
        /\ pc' = [pc EXCEPT !["parent"] = "t_stdin"]
        /\ UNCHANGED << exitPos, exitCause >>
     \/ /\ err_sys("parent")
        /\ UNCHANGED atexitList
  /\ UNCHANGED << relayVars, codecVars, heapVars, unitVars, texit,
                  prog, ignore_eof, interactive, driver, stdinIsTty, fd_read,
                  deviceIsTty, nread, nwrite, child_pids, sigcaught_main,
                  sigcaught_pty, sigdisp, pendingSig, extSignals, target,
                  termAttempts, termSent, stdinTerm, ptyTerm, devTerm,
                  snapshot, restores, fdOpen, zeroPhase >>

\* tcat.c:175  a terminal on standard input is saved and restore_stdin is
\* registered; otherwise the input is a pipe and interactive is cleared.
tcat_stdin ==
  /\ pc["parent"] = "t_stdin"
  /\ IF stdinIsTty
       THEN /\ snapshot' = [snapshot EXCEPT !["stdin_termios"] = stdinTerm]
            /\ atexitList' = Append(atexitList, "restore_stdin")
            /\ UNCHANGED interactive
       ELSE /\ interactive' = 0
            /\ UNCHANGED << snapshot, atexitList >>
  /\ pc' = [pc EXCEPT !["parent"] = "t_device"]
  /\ UNCHANGED << relayVars, codecVars, heapVars, unitVars, texit,
                  prog, ignore_eof, driver, stdinIsTty, fd_read, deviceIsTty,
                  nread, nwrite, child_pids, sigcaught_main, sigcaught_pty,
                  sigdisp, pendingSig, extSignals, exitPos, exitCause, target,
                  termAttempts, termSent, stdinTerm, ptyTerm, devTerm,
                  restores, fdOpen, zeroPhase >>

\* tcat.c:188  with a device that is a terminal, its settings are saved,
\* restore_device is registered and the device is set up: unchanged when
\* interactive (tty_interactive), raw otherwise (tty_raw_timeout).
tcat_device ==
  /\ pc["parent"] = "t_device"
  /\ IF fd_read # 0 - 1 /\ deviceIsTty
       THEN /\ snapshot' = [snapshot EXCEPT !["device_termios"] = devTerm]
            /\ atexitList' = Append(atexitList, "restore_device")
            /\ devTerm' = IF 1 = interactive THEN devTerm ELSE "raw"
       ELSE UNCHANGED << snapshot, atexitList, devTerm >>
  /\ pc' = [pc EXCEPT !["parent"] = "t_driver"]
  /\ UNCHANGED << relayVars, codecVars, heapVars, unitVars, texit,
                  prog, ignore_eof, interactive, driver, stdinIsTty, fd_read,
                  deviceIsTty, nread, nwrite, child_pids, sigcaught_main,
                  sigcaught_pty, sigdisp, pendingSig, extSignals, exitPos,
                  exitCause, target, termAttempts, termSent, stdinTerm,
                  ptyTerm, restores, fdOpen, zeroPhase >>

\* tcat.c:255  do_driver_argl(), then pty_buffers_atexit() (tcat.c:259)
\* registers _bfrees
tcat_driver ==
  /\ pc["parent"] = "t_driver"
  /\ \/ /\ atexitList' = Append(atexitList, "_bfrees")
        /\ pc' = [pc EXCEPT !["parent"] = "t_sigint"]
        /\ UNCHANGED << exitPos, exitCause >>
     \/ /\ driver
        /\ err_sys("parent")
        /\ UNCHANGED atexitList
  /\ UNCHANGED << relayVars, codecVars, heapVars, unitVars, texit,
                  prog, ignore_eof, interactive, driver, stdinIsTty, fd_read,
                  deviceIsTty, nread, nwrite, child_pids, sigcaught_main,
                  sigcaught_pty, sigdisp, pendingSig, extSignals, target,
                  termAttempts, termSent, stdinTerm, ptyTerm, devTerm,
                  snapshot, restores, fdOpen, zeroPhase >>

\* tcat.c:261  signal_intr( SIGINT, sig_int )
tcat_sigint ==
  /\ pc["parent"] = "t_sigint"
  /\ \/ /\ sigdisp' = [sigdisp EXCEPT !["parent"]["INT"] = "sig_int"]
        /\ pc' = [pc EXCEPT !["parent"] = "l_enter"]
        /\ UNCHANGED << exitPos, exitCause >>
     \/ /\ err_sys("parent")
        /\ UNCHANGED sigdisp
  /\ UNCHANGED << relayVars, codecVars, heapVars, unitVars, texit,
                  prog, ignore_eof, interactive, driver, stdinIsTty, fd_read,
                  deviceIsTty, nread, nwrite, child_pids, sigcaught_main,
                  sigcaught_pty, pendingSig, extSignals, atexitList, target,
                  termAttempts, termSent, stdinTerm, ptyTerm, devTerm,
                  snapshot, restores, fdOpen, zeroPhase >>

\* ------------------------------------------- tcat: loop_duplex_stdio()

\* pty.c:621  int nread, nwrite = 0;  nread has no initial value when the
\* loop condition reads it first: any value, here one of each sign.
UninitialisedInt == {0 - 1, 0, 1}

\* pty.c:658, pty.c:717  while ( (-1 < nwrite) && (-1 < nread) )
LoopCondition(w, n) == (0 - 1 < w) /\ (0 - 1 < n)

\* pty.c:627-656  both pointers are set to NULL, the buffer is allocated
\* and, unless fd_read is -1, the process forks: the child has its own copy
\* of the buffer, closes fd_write and standard input, allocates its
\* translation buffer if translate is set and tests its loop condition; the
\* parent closes fd_read and standard output (pty.c:703). malloc and fork
\* may fail: err_sys().
loop_duplex_fork ==
  /\ pc["parent"] = "l_enter"
  /\ \/ \E g \in UninitialisedInt :
          /\ nread' = [p \in Procs |-> g]
          /\ IF fd_read # 0 - 1
               THEN /\ sigdisp' = [sigdisp EXCEPT !["child"] = sigdisp["parent"]]
                    /\ fdOpen' = [fdOpen EXCEPT !["parent"] = {"stdin"},
                                                !["child"] = {"fd_read"}]
                    /\ lds_buffer' = [p \in Procs |-> "block"]
                    /\ \/ /\ pc' = [pc EXCEPT
                                 !["parent"] = "l_sigterm",
                                 !["child"] = IF LoopCondition(nwrite["child"], g)
                                                THEN "k_read" ELSE "k_after"]
                          /\ lds_tbuf' = [p \in Procs |->
                                            IF p = "child" /\ 1 = translate
                                              THEN "block" ELSE "NULL"]
                          /\ UNCHANGED << exitPos, exitCause >>
                       \/ /\ 1 = translate
                          /\ pc' = [pc EXCEPT !["parent"] = "l_sigterm",
                                              !["child"] = "exiting"]
                          /\ exitPos' = [exitPos EXCEPT
                                           !["child"] = Len(atexitList)]
                          /\ exitCause' = [exitCause EXCEPT
                                             !["child"] = "err_sys"]
                          /\ lds_tbuf' = [p \in Procs |-> "NULL"]
               ELSE /\ pc' = [pc EXCEPT !["parent"] = "l_sigterm"]
                    /\ lds_buffer' = [lds_buffer EXCEPT !["parent"] = "block"]
                    /\ lds_tbuf' = [lds_tbuf EXCEPT !["parent"] = "NULL"]
                    /\ UNCHANGED << sigdisp, fdOpen, exitPos, exitCause >>
     \/ /\ err_sys("parent")
        /\ lds_buffer' = [lds_buffer EXCEPT !["parent"] = "NULL"]
        /\ lds_tbuf' = [lds_tbuf EXCEPT !["parent"] = "NULL"]
        /\ UNCHANGED << nread, sigdisp, fdOpen >>
     \/ /\ fd_read # 0 - 1
        /\ err_sys("parent")
        /\ lds_buffer' = [lds_buffer EXCEPT !["parent"] = "block"]
        /\ lds_tbuf' = [lds_tbuf EXCEPT !["parent"] = "NULL"]
        /\ UNCHANGED << nread, sigdisp, fdOpen >>
  /\ UNCHANGED << relayVars, codecVars, translate, freed, unitVars, texit,
                  prog, ignore_eof, interactive, driver, stdinIsTty, fd_read,
                  deviceIsTty, nwrite, child_pids, sigcaught_main,
                  sigcaught_pty, pendingSig, extSignals, atexitList, target,
                  termAttempts, termSent, stdinTerm, ptyTerm, devTerm,
                  snapshot, restores, zeroPhase >>

\* pty.c:660-680  child: a read of the device; a chunk goes on to be
\* written; otherwise the loop is left if ieof is 0, or if the loop condition
\* fails.
LdsChildNext(n) ==
  IF 0 < n THEN "k_write"
  ELSE IF 0 = ignore_eof THEN "k_after"
  ELSE IF LoopCondition(nwrite["child"], n) THEN "k_read" ELSE "k_after"

lds_child_read ==
  /\ pc["child"] = "k_read"
  /\ \E n \in ReadResults :
       /\ nread' = [nread EXCEPT !["child"] = n]
       /\ zeroPhase' = [zeroPhase EXCEPT !["child"] = AfterRead(@, n)]
       /\ pc' = [pc EXCEPT !["child"] = LdsChildNext(n)]
  /\ UNCHANGED << relayVars, codecVars, heapVars, unitVars, texit,
                  prog, ignore_eof, interactive, driver, stdinIsTty, fd_read,
                  deviceIsTty, nwrite, child_pids, sigcaught_main,
                  sigcaught_pty, sigdisp, pendingSig, extSignals, atexitList,
                  exitPos, exitCause, target, termAttempts, termSent,
                  stdinTerm, ptyTerm, devTerm, snapshot, restores, fdOpen >>

\* pty.c:673  child: nwrite = write_or_warn( STDOUT_FILENO ): a failed write
\* ends in err_sys() inside write_or_warn (pty.c:418)
lds_child_write ==
  /\ pc["child"] = "k_write"
  /\ \E w \in WriteResults(nread["child"]) :
       IF 0 > w
         THEN /\ err_sys("child")
              /\ UNCHANGED nwrite
         ELSE /\ nwrite' = [nwrite EXCEPT !["child"] = w]
              /\ pc' = [pc EXCEPT !["child"] =
                          IF LoopCondition(w, nread["child"])
                            THEN "k_read" ELSE "k_after"]
              /\ UNCHANGED << exitPos, exitCause >>
  /\ UNCHANGED << relayVars, codecVars, heapVars, unitVars, texit,
                  prog, ignore_eof, interactive, driver, stdinIsTty, fd_read,
                  deviceIsTty, nread, child_pids, sigcaught_main,
                  sigcaught_pty, sigdisp, pendingSig, extSignals, atexitList,
                  target, termAttempts, termSent, stdinTerm, ptyTerm, devTerm,
                  snapshot, restores, fdOpen, zeroPhase >>

\* pty.c:688  child, after its loop: with ieof set it sends SIGTERM to the
\* parent
LdsChildNotifies == 1 = ignore_eof

lds_child_after ==
  /\ pc["child"] = "k_after"
  /\ IF LdsChildNotifies
       THEN KillSibling("child")
       ELSE UNCHANGED << pendingSig, termSent >>
  /\ pc' = [pc EXCEPT !["child"] = "k_chk"]
  /\ UNCHANGED << relayVars, codecVars, heapVars, unitVars, texit,
                  prog, ignore_eof, interactive, driver, stdinIsTty, fd_read,
                  deviceIsTty, nread, nwrite, child_pids, sigcaught_main,
                  sigcaught_pty, sigdisp, extSignals, atexitList, exitPos,
                  exitCause, target, termAttempts, stdinTerm, ptyTerm,
                  devTerm, snapshot, restores, fdOpen, zeroPhase >>

\* pty.c:692  child: err_sys() if 0 < nread, exit( 0 ) otherwise
lds_child_exit ==
  /\ pc["child"] = "k_chk"
  /\ IF 0 < nread["child"]
       THEN err_sys("child")
       ELSE DoExit("child", "exit0")
  /\ UNCHANGED << relayVars, codecVars, heapVars, unitVars, texit,
                  prog, ignore_eof, interactive, driver, stdinIsTty, fd_read,
                  deviceIsTty, nread, nwrite, child_pids, sigcaught_main,
                  sigcaught_pty, sigdisp, pendingSig, extSignals, atexitList,
                  target, termAttempts, termSent, stdinTerm, ptyTerm, devTerm,
                  snapshot, restores, fdOpen, zeroPhase >>

\* pty.c:708-715  parent: the translation buffer is allocated if translate
\* is set, then signal_intr( SIGTERM, sig_term ), then the loop condition is
\* tested
lds_sigterm ==
  /\ pc["parent"] = "l_sigterm"
  /\ \/ /\ sigdisp' = [sigdisp EXCEPT !["parent"]["TERM"] = "sig_term"]
        /\ pc' = [pc EXCEPT !["parent"] =
                    IF LoopCondition(nwrite["parent"], nread["parent"])
                      THEN "l_read" ELSE "l_after"]
        /\ lds_tbuf' = [lds_tbuf EXCEPT !["parent"] =
                          IF 1 = translate THEN "block" ELSE @]
        /\ UNCHANGED << exitPos, exitCause >>
     \/ /\ 1 = translate
        /\ err_sys("parent")
        /\ UNCHANGED << sigdisp, lds_tbuf >>
     \/ /\ err_sys("parent")
        /\ lds_tbuf' = [lds_tbuf EXCEPT !["parent"] =
                          IF 1 = translate THEN "block" ELSE @]
        /\ UNCHANGED sigdisp
  /\ UNCHANGED << relayVars, codecVars, translate, lds_buffer, freed,
                  unitVars, texit,
                  prog, ignore_eof, interactive, driver, stdinIsTty, fd_read,
                  deviceIsTty, nread, nwrite, child_pids, sigcaught_main,
                  sigcaught_pty, pendingSig, extSignals, atexitList, target,
                  termAttempts, termSent, stdinTerm, ptyTerm, devTerm,
                  snapshot, restores, fdOpen, zeroPhase >>

\* pty.c:719  parent: a read of standard input; a chunk goes on to be
\* written, anything else leads back to the loop condition.
LdsParentNext(n) ==
  IF 0 < n THEN "l_write"
  ELSE IF LoopCondition(nwrite["parent"], n) THEN "l_read" ELSE "l_after"

lds_parent_read ==
  /\ pc["parent"] = "l_read"
  /\ \E n \in ReadResults :
       /\ nread' = [nread EXCEPT !["parent"] = n]
       /\ zeroPhase' = [zeroPhase EXCEPT !["parent"] = AfterRead(@, n)]
       /\ pc' = [pc EXCEPT !["parent"] = LdsParentNext(n)]
  /\ UNCHANGED << relayVars, codecVars, heapVars, unitVars, texit,
                  prog, ignore_eof, interactive, driver, stdinIsTty, fd_read,
                  deviceIsTty, nwrite, child_pids, sigcaught_main,
                  sigcaught_pty, sigdisp, pendingSig, extSignals, atexitList,
                  exitPos, exitCause, target, termAttempts, termSent,
                  stdinTerm, ptyTerm, devTerm, snapshot, restores, fdOpen >>

\* pty.c:734  parent: nwrite = write_or_warn( fd_write )
lds_parent_write ==
  /\ pc["parent"] = "l_write"
  /\ \E w \in WriteResults(nread["parent"]) :
       IF 0 > w
         THEN /\ err_sys("parent")
              /\ UNCHANGED nwrite
         ELSE /\ nwrite' = [nwrite EXCEPT !["parent"] = w]
              /\ pc' = [pc EXCEPT !["parent"] =
                          IF LoopCondition(w, nread["parent"])
                            THEN "l_read" ELSE "l_after"]
              /\ UNCHANGED << exitPos, exitCause >>
  /\ UNCHANGED << relayVars, codecVars, heapVars, unitVars, texit,
                  prog, ignore_eof, interactive, driver, stdinIsTty, fd_read,
                  deviceIsTty, nread, child_pids, sigcaught_main,
                  sigcaught_pty, sigdisp, pendingSig, extSignals, atexitList,
                  target, termAttempts, termSent, stdinTerm, ptyTerm, devTerm,
                  snapshot, restores, fdOpen, zeroPhase >>

\* pty.c:742-755  parent, after its loop: it sends no signal, frees
\* lds_tbuf and sets it to NULL, frees lds_buffer and sets lds_tbuf to NULL
\* once more (pty.c:752), so lds_buffer keeps pointing to the freed block;
\* it returns to main(), which calls exit( 0 ) (tcat.c:267)
lds_parent_return ==
  /\ pc["parent"] = "l_after"
  /\ freed' = [freed EXCEPT !["parent"] =
                 [lds_tbuf   |-> free(lds_tbuf["parent"], @.lds_tbuf),
                  lds_buffer |-> free(lds_buffer["parent"], @.lds_buffer)]]
  /\ lds_tbuf' = [lds_tbuf EXCEPT !["parent"] = "NULL"]
  /\ DoExit("parent", "return")
  /\ UNCHANGED << relayVars, codecVars, translate, lds_buffer, unitVars,
                  texit,
                  prog, ignore_eof, interactive, driver, stdinIsTty, fd_read,
                  deviceIsTty, nread, nwrite, child_pids, sigcaught_main,
                  sigcaught_pty, sigdisp, pendingSig, extSignals, atexitList,
                  target, termAttempts, termSent, stdinTerm, ptyTerm, devTerm,
                  snapshot, restores, fdOpen, zeroPhase >>

\* ----------------------------------------------------- tcat: specification

\* tcat.c:129-136  the state of tcat when the options are parsed (no driver
\* is given: option -d is not taken)
InitTcat ==
  /\ prog = "tcat"
  /\ translate \in {0, 1}
  /\ driver = FALSE
  /\ fd_read \in {0 - 1, DeviceFd}
  /\ deviceIsTty \in BOOLEAN
  /\ (fd_read = 0 - 1) => ~deviceIsTty
  /\ pc = [p \in Procs |-> IF p = "parent" THEN "t_atexit" ELSE "unborn"]
  /\ InitCommon

TcatParent ==
  \/ tcat_atexit
  \/ tcat_stdin
  \/ tcat_device
  \/ tcat_driver
  \/ tcat_sigint
  \/ loop_duplex_fork
  \/ lds_sigterm
  \/ lds_parent_read
  \/ lds_parent_write
  \/ lds_parent_return
  \/ RunExitHandler("parent")

TcatChild ==
  \/ lds_child_read
  \/ lds_child_write
  \/ lds_child_after
  \/ lds_child_exit
  \/ RunExitHandler("child")

NextTcat == TcatParent \/ TcatChild \/ Signals

SpecTcat == InitTcat /\ [][NextTcat]_vars


\* Fairness of pty: a process that is not blocked goes on. Reads may block
\* for ever, and neither the environment nor the target owes a step.
PtyParentProgress ==
  \/ tty_save_pty
  \/ pty_fork_init
  \/ fork_failed_init
  \/ fork_failed_exec
  \/ main_record
  \/ main_atexit
  \/ main_sigint
  \/ main_raw
  \/ main_driver
  \/ ptym_fork
  \/ ptym_sigterm
  \/ ptym_parent_write
  \/ ptym_parent_after
  \/ ptym_parent_return
  \/ RunExitHandler("parent")

PtyChildProgress ==
  \/ ptym_child_write
  \/ ptym_child_after
  \/ ptym_child_exit
  \/ RunExitHandler("child")

SpecPtyFair ==
  /\ InitPty
  /\ [][NextPty]_vars
  /\ WF_vars(PtyParentProgress)
  /\ WF_vars(PtyChildProgress)
  /\ WF_vars(PtyTarget)
  /\ WF_vars(\E p \in Procs : DeliverPending(p))

\* ================================================================ properties

\* Both relay processes of the program are gone (the child may never have
\* been forked).
RunOver == pc["parent"] = "dead" /\ pc["child"] \in {"unborn", "dead"}

\* Process p left through exit(): its registered exit handlers ran.
LeftByExit(p) ==
  exitCause[p] \in {"return", "exit0", "sig_int", "err_sys", "exit_in_exit"}

\* Process p has run at least one of the registered exit handlers.
RanExitHandler(p) == LeftByExit(p) /\ exitPos[p] < Len(atexitList)

InRelayLoop(p) ==
  pc[p] \in {"p_read", "p_write", "c_read", "c_write",
             "l_read", "l_write", "k_read", "k_write"}

\* C1: when the run of pty is over and the target child was live when a
\* process running cleanup() signalled it, SIGTERM was attempted for the
\* target exactly once, counting the parent and the relay child.
C1_ExactlyOneTermAttempt ==
  (prog = "pty" /\ RunOver /\ target = "signaled") => termAttempts = 1

\* C2: when both relay processes have left through exit() (normal return,
\* SIGINT, fatal I/O error), every snapshot taken with tty_save has been
\* re-applied with tty_reset exactly once, counting both processes.
C2_RestoredExactlyOnce ==
  (RunOver /\ LeftByExit("parent") /\ LeftByExit("child")) =>
    \A s \in Snapshots : snapshot[s] # "unset" => restores[s] = 1

\* C3: the pty parent is never gone while the target child it spawned is
\* live and no termination signal was attempted for it.
C3_NeverLeavesTargetLive ==
  ~(prog = "pty" /\ pc["parent"] = "dead" /\ target = "live")

\* C4: when pty has left through exit() after the snapshot was taken, the
\* line discipline of the terminal on standard input equals the snapshot.
C4_StdinRestored ==
  (prog = "pty" /\ pc["parent"] = "dead" /\ LeftByExit("parent")
     /\ snapshot["orig_termios"] # "unset")
    => stdinTerm = snapshot["orig_termios"]

\* C5: the forked relay direction never performs the final cleanup (the
\* exit handlers) while the other direction is still relaying.
C5_CleanupOnlyAfterBothStopped ==
  ~(RanExitHandler("child") /\ InRelayLoop("parent"))

\* C6: once sig_term has set the flag in the pty relay parent, the parent
\* loop eventually stops reading and writing.
C6_SigtermStopsRelay ==
  (prog = "pty" /\ sigcaught_pty = 1) ~> ~InRelayLoop("parent")

\* C7: in ptym_process_stdio a direction that has left its loop has sent a
\* termination signal to the process of the other direction.
C7_EachDirectionSignalsOther ==
  /\ pc["child"] = "c_chk" => termSent["child"]
  /\ pc["parent"] = "p_chk" => termSent["parent"]

\* C8: in loop_duplex_stdio with two processes, a direction that has
\* terminated has sent a termination signal to its sibling.
C8_SiblingSignalled ==
  (prog = "tcat" /\ pc["child"] # "unborn") =>
     /\ pc["child"] = "k_chk" => termSent["child"]
     /\ exitCause["parent"] = "return" => termSent["parent"]


InPtyLoop(p) == pc[p] \in {"c_read", "c_write", "p_read", "p_write"}

LeftPtyLoop(p) == pc[p] \in {"c_after", "c_chk", "p_after", "p_chk"}

\* C9: in both directions of ptym_process_stdio, with ignore_eof = 0 a
\* direction that has read zero bytes is out of its loop; with ignore_eof = 1
\* a direction is never out of its loop with a zero-length read as its last
\* result, and a chunk read after a zero-length read goes on to be written.
C9_EofPolicyPty ==
  \A p \in Procs :
    /\ (ignore_eof = 0 /\ zeroPhase[p] = 1) => ~InPtyLoop(p)
    /\ (ignore_eof = 1 /\ LeftPtyLoop(p)) => nread[p] # 0
    /\ (ignore_eof = 1 /\ zeroPhase[p] = 1 /\ pc[p] \in {"c_write", "p_write"})
         => nread[p] > 0

\* Both directions are writing a chunk that they read after a zero-length
\* read, with ignore_eof set.
C9_Witness ==
  /\ ignore_eof = 1
  /\ zeroPhase["child"] = 1 /\ pc["child"] = "c_write"
  /\ zeroPhase["parent"] = 1 /\ pc["parent"] = "p_write"

InLdsLoop(p) == pc[p] \in {"k_read", "k_write", "l_read", "l_write"}

LeftLdsLoop(p) == pc[p] \in {"k_after", "k_chk", "l_after"}

\* C10: in both directions of loop_duplex_stdio, with ieof = 0 a direction
\* that has read zero bytes is out of its loop, and with ieof = 1 a direction
\* is never out of its loop with a zero-length read as its last result.
C10_EofPolicyLds ==
  \A p \in Procs :
    /\ (ignore_eof = 0 /\ zeroPhase[p] = 1) => ~InLdsLoop(p)
    /\ (ignore_eof = 1 /\ LeftLdsLoop(p)) => nread[p] # 0


\* ------------------------------ pty: the relay loops with the bytes followed

\* The loops of ptym_process_stdio once more, statement for statement as
\* above, with the content of the streams followed: each source holds
\* MaxBytes bytes, numbered from 1, and a read takes at most MaxBurst of them.
MaxBurst == 2

MaxBytes == 3

\* results of read(): an error, end of file, or a chunk the source still has
BurstResults(p) ==
  { n \in (0 - 1)..MaxBurst : n <= MaxBytes - taken[p] }

\* the chunk in buf after a read of n bytes: the latest n bytes taken
ChunkInBuf(p) ==
  [i \in 1..nread[p] |-> taken[p] - nread[p] + i]

\* write( fd, &buf, nread ) returning w hands over the first w bytes of buf
Accepted(p, w) ==
  IF w > 0 THEN SubSeq(ChunkInBuf(p), 1, w) ELSE << >>

\* main.c:318  child: nread = read( STDIN_FILENO, &buf, BUFLEN )
relay_child_read ==
  /\ pc["child"] = "c_read"
  /\ \E n \in BurstResults("child") :
       /\ nread' = [nread EXCEPT !["child"] = n]
       /\ taken' = [taken EXCEPT !["child"] = IF n > 0 THEN @ + n ELSE @]
       /\ zeroPhase' = [zeroPhase EXCEPT !["child"] = AfterRead(@, n)]
       /\ pc' = [pc EXCEPT !["child"] = ChildLoopNext(n)]
  /\ UNCHANGED << heapVars, unitVars, prog, ignore_eof, interactive, driver, stdinIsTty, fd_read,
                  deviceIsTty, nwrite, child_pids, sigcaught_main,
                  sigcaught_pty, sigdisp, pendingSig, extSignals, atexitList,
                  exitPos, exitCause, target, termAttempts, termSent,
                  stdinTerm, ptyTerm, devTerm, snapshot, restores, fdOpen,
                  delivered, codec_pc, codec_u8, codec_str, codec_out,
                  codec_ret, texit >>

\* main.c:323  child: 0 > write( pty_amaster, &buf, nread )
relay_child_write ==
  /\ pc["child"] = "c_write"
  /\ \E w \in WriteResults(nread["child"]) :
       /\ delivered' = [delivered EXCEPT !["child"] = @ \o Accepted("child", w)]
       /\ IF ChildWriteFailed(w)
            THEN pc' = [pc EXCEPT !["child"] = "c_after"]
            ELSE pc' = [pc EXCEPT !["child"] = "c_read"]
  /\ UNCHANGED << heapVars, unitVars, prog, ignore_eof, interactive, driver, stdinIsTty, fd_read,
                  deviceIsTty, nread, nwrite, child_pids, sigcaught_main,
                  sigcaught_pty, sigdisp, pendingSig, extSignals, atexitList,
                  exitPos, exitCause, target, termAttempts, termSent,
                  stdinTerm, ptyTerm, devTerm, snapshot, restores, fdOpen,
                  zeroPhase, taken, codec_pc, codec_u8, codec_str, codec_out,
                  codec_ret, texit >>

\* main.c:378  parent: pac < (nread = read( pty_amaster, &buf, BUFLEN ))
relay_parent_read ==
  /\ pc["parent"] = "p_read"
  /\ \E n \in BurstResults("parent") :
       /\ nread' = [nread EXCEPT !["parent"] = n]
       /\ taken' = [taken EXCEPT !["parent"] = IF n > 0 THEN @ + n ELSE @]
       /\ zeroPhase' = [zeroPhase EXCEPT !["parent"] = AfterRead(@, n)]
       /\ pc' = [pc EXCEPT !["parent"] = ParentLoopNext(n)]
  /\ UNCHANGED << heapVars, unitVars, prog, ignore_eof, interactive, driver, stdinIsTty, fd_read,
                  deviceIsTty, nwrite, child_pids, sigcaught_main,
                  sigcaught_pty, sigdisp, pendingSig, extSignals, atexitList,
                  exitPos, exitCause, target, termAttempts, termSent,
                  stdinTerm, ptyTerm, devTerm, snapshot, restores, fdOpen,
                  delivered, codec_pc, codec_u8, codec_str, codec_out,
                  codec_ret, texit >>

\* main.c:380  parent: write( STDOUT_FILENO, &buf, nread ) != nread
relay_parent_write ==
  /\ pc["parent"] = "p_write"
  /\ \E w \in WriteResults(nread["parent"]) :
       /\ delivered' = [delivered EXCEPT !["parent"] = @ \o Accepted("parent", w)]
       /\ IF ParentWriteFailed(w)
            THEN pc' = [pc EXCEPT !["parent"] = "p_after"]
            ELSE pc' = [pc EXCEPT !["parent"] = "p_read"]
  /\ UNCHANGED << heapVars, unitVars, prog, ignore_eof, interactive, driver, stdinIsTty, fd_read,
                  deviceIsTty, nread, nwrite, child_pids, sigcaught_main,
                  sigcaught_pty, sigdisp, pendingSig, extSignals, atexitList,
                  exitPos, exitCause, target, termAttempts, termSent,
                  stdinTerm, ptyTerm, devTerm, snapshot, restores, fdOpen,
                  zeroPhase, taken, codec_pc, codec_u8, codec_str, codec_out,
                  codec_ret, texit >>

\* The state of pty when both loops of ptym_process_stdio start: the target
\* is live, cleanup is registered, the handlers are installed (main.c:369).
RelayStarted ==
  /\ prog = "pty"
  /\ translate = 0
  /\ interactive = 1
  /\ driver = FALSE
  /\ stdinIsTty = TRUE
  /\ fd_read = 0 - 1
  /\ deviceIsTty = FALSE
  /\ pc = [p \in Procs |-> IF p = "parent" THEN "p_read" ELSE "c_read"]
  /\ nread = [p \in Procs |-> 0]
  /\ nwrite = [p \in Procs |-> 0]
  /\ child_pids = TargetPid
  /\ sigcaught_main = 0
  /\ sigcaught_pty = 0
  /\ sigdisp = [p \in Procs |->
                  [INT |-> "sig_int",
                   TERM |-> IF p = "parent" THEN "sig_term" ELSE "default"]]
  /\ pendingSig = [p \in Procs |-> {}]
  /\ extSignals = 0
  /\ atexitList = << "cleanup" >>
  /\ exitPos = [p \in Procs |-> 0]
  /\ exitCause = [p \in Procs |-> "none"]
  /\ target = "live"
  /\ termAttempts = 0
  /\ termSent = [p \in Procs |-> FALSE]
  /\ stdinTerm = "cooked"
  /\ ptyTerm = "ptydefault"
  /\ devTerm = "devdefault"
  /\ snapshot = [s \in Snapshots |->
                   IF s = "orig_termios" THEN "cooked" ELSE "unset"]
  /\ restores = [s \in Snapshots |-> 0]
  /\ fdOpen = [p \in Procs |-> {"stdin", "fd_read"}]
  /\ zeroPhase = [p \in Procs |-> 0]
  /\ codec_pc = "off"
  /\ codec_u8 = << >>
  /\ codec_str = << >>
  /\ codec_out = << >>
  /\ codec_ret = 0
  /\ texit = [cause |-> "none", status |-> 0]
  /\ lds_buffer = [p \in Procs |-> "NULL"]
  /\ lds_tbuf = [p \in Procs |-> "NULL"]
  /\ freed = [p \in Procs |-> [lds_buffer |-> 0, lds_tbuf |-> 0]]
  /\ ptym = [fdm |-> "unopened", failed |-> "none"]
  /\ CallsIdle

InitRelay ==
  /\ RelayStarted
  /\ ignore_eof \in {0, 1}
  /\ taken = [p \in Procs |-> 0]
  /\ delivered = [p \in Procs |-> << >>]

NextRelay ==
  \/ relay_child_read
  \/ relay_child_write
  \/ relay_parent_read
  \/ relay_parent_write

SpecRelay == InitRelay /\ [][NextRelay]_vars

\* C11: a short write is no error for a relay direction: a direction is back
\* at its read only when every byte it took was handed over, and it has left
\* its loop after a write only if that write handed over nothing (failed).
C11_ShortWriteNotAnError ==
  \A p \in Procs :
    /\ pc[p] \in {"c_read", "p_read"} => Len(delivered[p]) = taken[p]
    /\ (LeftPtyLoop(p) /\ nread[p] > 0)
         => Len(delivered[p]) = taken[p] - nread[p]

\* C12: in each direction of ptym_process_stdio the bytes delivered are, at
\* every moment, a prefix of the bytes of the source: byte i is delivered as
\* the i-th byte.
C12_DeliveredIsPrefix ==
  \A p \in Procs : \A i \in 1..Len(delivered[p]) : delivered[p][i] = i


\* --------------------------------------------- codec: u8nprints, snprintu8

\* longest byte buffer and longest character buffer handed to the codec
MaxByteLen == 2

MaxStrLen == 3

\* pty.c:232-255  the nibble/character table; entry i of the C array is
\* entry i + 1 here.
u8nct ==
  << [num |-> 0, rep |-> "0"], [num |-> 1, rep |-> "1"],
     [num |-> 2, rep |-> "2"], [num |-> 3, rep |-> "3"],
     [num |-> 4, rep |-> "4"], [num |-> 5, rep |-> "5"],
     [num |-> 6, rep |-> "6"], [num |-> 7, rep |-> "7"],
     [num |-> 8, rep |-> "8"], [num |-> 9, rep |-> "9"],
     [num |-> 10, rep |-> "a"], [num |-> 11, rep |-> "b"],
     [num |-> 12, rep |-> "c"], [num |-> 13, rep |-> "d"],
     [num |-> 14, rep |-> "e"], [num |-> 15, rep |-> "f"],
     [num |-> 10, rep |-> "A"], [num |-> 11, rep |-> "B"],
     [num |-> 12, rep |-> "C"], [num |-> 13, rep |-> "D"],
     [num |-> 14, rep |-> "E"], [num |-> 15, rep |-> "F"] >>

\* the entry at which a for loop with a break stops: the first that matches
FirstOf(S) == CHOOSE x \in S : \A y \in S : x <= y

\* _u8toc storing each nibble through the pointer of its own name: with the
\* call of u8nprints the low nibble's character then comes first.
_u8toc_OwnNames(in) ==
  [low_nibble_conv |->
     u8nct[FirstOf({i \in 1..16 : u8nct[i].num = in % 16})].rep,
   high_nibble_conv |->
     u8nct[FirstOf({i \in 1..16 : u8nct[i].num = (in \div 16) % 16})].rep]

\* pty.c:258-275  _u8toc( high_nibble_conv, low_nibble_conv, in ): the first
\* loop ( i < 16 ) stores the character of in >> 4 through low_nibble_conv,
\* the second the character of 0x0F & in through high_nibble_conv.
_u8toc(in) ==
  [low_nibble_conv |->
     u8nct[FirstOf({i \in 1..16 : u8nct[i].num = (in \div 16) % 16})].rep,
   high_nibble_conv |->
     u8nct[FirstOf({i \in 1..16 : u8nct[i].num = in % 16})].rep]

\* _ctou8 looking at the ten decimal digits of the table only
_ctou8_DigitsOnly(in_char) ==
  LET hits == {i \in 1..10 : u8nct[i].rep = in_char}
  IN  IF hits = {} THEN 0 ELSE u8nct[FirstOf(hits)].num

\* _ctou8 without the default out = 0x00: a character not in the table
\* leaves whatever out held, here 0xFF
_ctou8_NoDefault(in_char) ==
  LET hits == {i \in 1..21 : u8nct[i].rep = in_char}
  IN  IF hits = {} THEN 255 ELSE u8nct[FirstOf(hits)].num

\* pty.c:278-298  _ctou8( in_char ): for ( i=0; i<21; i++ ) over the table,
\* 0x00 when no entry matched.
_ctou8(in_char) ==
  LET hits == {i \in 1..21 : u8nct[i].rep = in_char}
  IN  IF hits = {} THEN 0 ELSE u8nct[FirstOf(hits)].num

\* snprintu8 taking the pairs from the start of an odd input and the single
\* character last
snprintu8_TrailingNibble(out_size, in) ==
  LET in_size == Len(in)
      shift == in_size % 2
      os == IF out_size < in_size \div 2 + shift
              THEN out_size
              ELSE in_size \div 2 + shift
      byte(i) ==
        IF shift = 1 /\ (i * 2) + 1 = in_size
          THEN _ctou8(in[in_size]) % 16
          ELSE ((_ctou8(in[(i * 2) + 1]) * 16) % 256)
                 + (_ctou8(in[(i * 2) + 2]) % 16)
  IN  IF os = 0
        THEN [out |-> << >>, ret |-> 0]
        ELSE [out |-> [k \in 1..os |-> byte(k - 1)], ret |-> os]

\* pty.c:301-339  snprintu8( out, out_size, in, in_size ): the bytes written
\* to out and the value returned. With an odd in_size the first character
\* alone makes out[0]; out[i] is made of in[index-1] and in[index].
snprintu8(out_size, in) ==
  LET in_size == Len(in)
      shift == in_size % 2
      os == IF out_size < in_size \div 2 + shift
              THEN out_size
              ELSE in_size \div 2 + shift
      index(i) == (i * 2) + 1 - shift
      byte(i) ==
        IF shift = 1 /\ i = 0
          THEN _ctou8(in[1]) % 16
          ELSE ((_ctou8(in[index(i)]) * 16) % 256)
                 + (_ctou8(in[index(i) + 1]) % 16)
  IN  IF os = 0
        THEN [out |-> << >>, ret |-> 0]
        ELSE [out |-> [k \in 1..os |-> byte(k - 1)], ret |-> os]

\* pty.c:342-363  u8nprints( out, out_size, in, in_num ): byte i goes to
\* _u8toc( &out[2*i+1], &out[2*i], in[i] ); returns i*2.
u8nprints(out_size, in) ==
  LET in_num == Len(in)
      brs == IF out_size < in_num * 2 THEN out_size \div 2 ELSE in_num
      char(j) ==
        LET conv == _u8toc(in[(j \div 2) + 1])
        IN  IF j % 2 = 1 THEN conv.high_nibble_conv ELSE conv.low_nibble_conv
  IN  [out |-> [k \in 1..(2 * brs) |-> char(k - 1)], ret |-> 2 * brs]

\* bytes and characters the buffers are filled with
SampleBytes == {0, 10, 74, 116, 159, 175, 240, 255}

HexLower == {"0", "4", "9", "a", "b", "c", "d", "e", "f"}

HexUpper == {"A", "B", "C", "D", "E", "F"}

NoHex == {"g", "G", " "}

SampleChars == HexLower \cup HexUpper \cup NoHex

SeqsUpTo(S, n) == UNION {[1..k -> S] : k \in 0..n}

\* the bytes of "test\n" (part_000:44)
TestBytes == << 116, 101, 115, 116, 10 >>

ByteBuffers ==
  SeqsUpTo(SampleBytes, MaxByteLen)
    \cup {<< b >> : b \in 0..255} \cup {TestBytes}

CharBuffers == SeqsUpTo(SampleChars, MaxStrLen)

\* A buffer of bytes waits for u8nprints, or a buffer of characters for
\* snprintu8.
CodecReady ==
  \/ /\ codec_pc = "bytes"
     /\ codec_u8 \in ByteBuffers
     /\ codec_str = << >>
  \/ /\ codec_pc = "chars"
     /\ codec_u8 = << >>
     /\ codec_str \in CharBuffers

InitCodec ==
  /\ prog = "tcat"
  /\ translate = 1
  /\ ignore_eof = 0
  /\ interactive = 0
  /\ driver = FALSE
  /\ stdinIsTty = FALSE
  /\ fd_read = DeviceFd
  /\ deviceIsTty = FALSE
  /\ pc = [p \in Procs |-> IF p = "parent" THEN "l_write" ELSE "k_write"]
  /\ nread = [p \in Procs |-> 0]
  /\ nwrite = [p \in Procs |-> 0]
  /\ child_pids = 0
  /\ sigcaught_main = 0
  /\ sigcaught_pty = 0
  /\ sigdisp = [p \in Procs |-> [INT |-> "default", TERM |-> "default"]]
  /\ pendingSig = [p \in Procs |-> {}]
  /\ extSignals = 0
  /\ atexitList = << >>
  /\ exitPos = [p \in Procs |-> 0]
  /\ exitCause = [p \in Procs |-> "none"]
  /\ target = "none"
  /\ termAttempts = 0
  /\ termSent = [p \in Procs |-> FALSE]
  /\ stdinTerm = "cooked"
  /\ ptyTerm = "ptydefault"
  /\ devTerm = "devdefault"
  /\ snapshot = [s \in Snapshots |-> "unset"]
  /\ restores = [s \in Snapshots |-> 0]
  /\ fdOpen = [p \in Procs |-> {"stdin", "fd_read"}]
  /\ zeroPhase = [p \in Procs |-> 0]
  /\ taken = [p \in Procs |-> 0]
  /\ delivered = [p \in Procs |-> << >>]
  /\ texit = [cause |-> "none", status |-> 0]
  /\ lds_buffer = [p \in Procs |-> "NULL"]
  /\ lds_tbuf = [p \in Procs |-> "NULL"]
  /\ freed = [p \in Procs |-> [lds_buffer |-> 0, lds_tbuf |-> 0]]
  /\ ptym = [fdm |-> "unopened", failed |-> "none"]
  /\ CallsIdle
  /\ codec_out = << >>
  /\ codec_ret = 0
  /\ CodecReady

\* pty.c:667  nwrite = u8nprints( lds_tbuf, nread*2, lds_buffer, nread )
codec_u8nprints ==
  /\ codec_pc = "bytes"
  /\ LET r == u8nprints(Len(codec_u8) * 2, codec_u8)
     IN  /\ codec_str' = r.out
         /\ codec_ret' = r.ret
  /\ codec_pc' = "encoded"
  /\ UNCHANGED << codec_u8, codec_out >>
  /\ UNCHANGED << heapVars, unitVars, prog, ignore_eof, interactive, driver, stdinIsTty, fd_read,
                  deviceIsTty, pc, nread, nwrite, child_pids, sigcaught_main,
                  sigcaught_pty, sigdisp, pendingSig, extSignals, atexitList,
                  exitPos, exitCause, target, termAttempts, termSent,
                  stdinTerm, ptyTerm, devTerm, snapshot, restores, fdOpen,
                  zeroPhase, taken, delivered, texit >>

\* pty.c:727  nwrite = snprintu8( lds_tbuf, nread/2 + nread%2, lds_buffer,
\* nread ), on the characters just made by u8nprints or on characters given.
codec_snprintu8 ==
  /\ codec_pc \in {"chars", "encoded"}
  /\ LET n == Len(codec_str)
         r == snprintu8((n \div 2) + (n % 2), codec_str)
     IN  /\ codec_out' = r.out
         /\ codec_ret' = r.ret
  /\ codec_pc' = IF codec_pc = "encoded" THEN "roundtrip" ELSE "decoded"
  /\ UNCHANGED << codec_u8, codec_str >>
  /\ UNCHANGED << heapVars, unitVars, prog, ignore_eof, interactive, driver, stdinIsTty, fd_read,
                  deviceIsTty, pc, nread, nwrite, child_pids, sigcaught_main,
                  sigcaught_pty, sigdisp, pendingSig, extSignals, atexitList,
                  exitPos, exitCause, target, termAttempts, termSent,
                  stdinTerm, ptyTerm, devTerm, snapshot, restores, fdOpen,
                  zeroPhase, taken, delivered, texit >>

NextCodec ==
  \/ codec_u8nprints
  \/ codec_snprintu8

SpecCodec == InitCodec /\ [][NextCodec]_vars


\* the lowercase hexadecimal digits, digit of value v at place v + 1
HexDigits ==
  << "0", "1", "2", "3", "4", "5", "6", "7", "8", "9",
     "a", "b", "c", "d", "e", "f" >>

HexChars ==
  {HexDigits[i] : i \in 1..16} \cup {"A", "B", "C", "D", "E", "F"}

\* value of the character c as a nibble, as snprintu8 takes it
Nibble(c) == _ctou8(c) % 16

\* C13: decoding with snprintu8 the characters made by u8nprints from the
\* bytes B yields exactly B.
C13_RoundTrip ==
  codec_pc = "roundtrip" =>
    /\ codec_out = codec_u8
    /\ codec_ret = Len(codec_u8)

\* The bytes of "test\n" have made the round trip.
C13_Witness == codec_pc = "roundtrip" /\ codec_u8 = TestBytes

C15_LeadingNibble ==
  codec_pc = "decoded" =>
    LET n == Len(codec_str)
        odd == n % 2
    IN  /\ Len(codec_out) = (n \div 2) + odd
        /\ codec_ret = (n \div 2) + odd
        /\ odd = 1 => codec_out[1] = Nibble(codec_str[1])
        /\ \A k \in 1..(n \div 2) :
             codec_out[k + odd] =
               (16 * Nibble(codec_str[(2 * k) - 1 + odd]))
                 + Nibble(codec_str[(2 * k) + odd])

\* C15 (as stated): snprintu8 takes the pairs from the start of the input;
\* when the input length is odd, the character left at the end makes the
\* last byte, with a high nibble of zero.
C15_TrailingNibble ==
  codec_pc = "decoded" =>
    LET n == Len(codec_str)
        odd == n % 2
    IN  /\ Len(codec_out) = (n \div 2) + odd
        /\ \A k \in 1..(n \div 2) :
             codec_out[k] =
               (16 * Nibble(codec_str[(2 * k) - 1]))
                 + Nibble(codec_str[2 * k])
        /\ odd = 1 => codec_out[(n \div 2) + 1] = Nibble(codec_str[n])

\* Three different digits have been decoded.
C15_Witness == codec_pc = "decoded" /\ codec_str = << "a", "b", "c" >>

ToLower(c) ==
  CASE c = "A" -> "a"
    [] c = "B" -> "b"
    [] c = "C" -> "c"
    [] c = "D" -> "d"
    [] c = "E" -> "e"
    [] c = "F" -> "f"
    [] OTHER -> c

\* C16: for every string of even length over [0-9a-fA-F], snprintu8 yields
\* the same bytes for the string and for its lowercase form.
C16_CaseInsensitive ==
  (/\ codec_pc = "decoded"
   /\ Len(codec_str) % 2 = 0
   /\ \A i \in 1..Len(codec_str) : codec_str[i] \in HexChars)
    => codec_out =
         snprintu8(Len(codec_str) \div 2,
                   [i \in 1..Len(codec_str) |-> ToLower(codec_str[i])]).out

\* the input with every character outside [0-9a-fA-F] replaced by '0'
ZeroNoHex(str) ==
  [i \in 1..Len(str) |-> IF str[i] \in HexChars THEN str[i] ELSE "0"]

\* C17: decoding never fails, and a character outside [0-9a-fA-F] decodes
\* as '0' does: replacing it by '0' does not change the output of snprintu8.
C17_NoHexIsZero ==
  codec_pc = "decoded" =>
    LET n == Len(codec_str)
    IN  /\ codec_ret = (n \div 2) + (n % 2)
        /\ codec_out = snprintu8((n \div 2) + (n % 2),
                                 ZeroNoHex(codec_str)).out

\* A string with characters outside the hexadecimal digits has been decoded.
C17_Witness == codec_pc = "decoded" /\ codec_str = << "g", "4", " " >>


\* C18: when fork fails inside pty_fork_init, the calling process performs
\* none of the child-side steps: it is never past the session, slave and
\* stdio steps of case 0, and never replaced by the target program.
C18_ForkFailureIsFatal ==
  pc["parent"] \notin {"f_exec", "replaced"}

\* C19: a target child whose exec has failed has terminated, and the child
\* is never back in main running the parent-side code.
C19_ExecFailureEndsChild ==
  /\ target # "parentcode"
  /\ texit.cause = "exec" => (target = "exited" /\ texit.status # 0)

\* The target child has ended because exec returned.
C19_Witness == target = "exited" /\ texit.cause = "exec"

\* C20: a child that failed to replace its process image has a nonzero exit
\* status that differs from the status of every other fatal error of the
\* child (session creation, slave open, stdio rebinding).
C20_ExecStatusDistinct ==
  texit.cause = "exec" =>
    /\ texit.status # 0
    /\ \A step \in InitSteps : texit.status # FatalStatus(step)


\* ------------------------------------------------------- pty: exit status

\* The status a process hands to exit(): EXIT_FAILURE from err_sys()
\* (pty.c:101), 0 from exit( 0 ) in main (main.c:294) and in the relay child
\* (main.c:356), EXIT_SUCCESS from sig_int() (pty.c:173).
ExitStatus(cause) == IF cause = "err_sys" THEN EXIT_FAILURE ELSE 0

\* The last read of p returned -1 and no sig_term handler has run: the read
\* was not interrupted by the shutdown signal.
HardReadError(p) == nread[p] = 0 - 1 /\ sigcaught_pty = 0

\* p left its loop on a write that failed: nread still holds the size of
\* the chunk (main.c:380-383, main.c:392).
WriteFailure(p) == nread[p] > 0

\* C21: when the pty parent has left ptym_process_stdio through exit(), its
\* status is 0 only if the last read was an end of file or the shutdown
\* signal was caught; after a read that failed for another reason, or a
\* failed write, the status is nonzero.
C21_StatusZeroOnlyWhenClean ==
  (prog = "pty" /\ exitCause["parent"] \in {"return", "err_sys"}
     /\ sigdisp["parent"]["TERM"] = "sig_term") =>
    /\ ExitStatus(exitCause["parent"]) = 0 =>
         (nread["parent"] = 0 \/ sigcaught_pty = 1)
    /\ (HardReadError("parent") \/ WriteFailure("parent")) =>
         ExitStatus(exitCause["parent"]) # 0


\* ---------------------------------------------- order of the cleanup actions

\* The exit handlers that p has run so far, first run first: exit() calls
\* the registered functions in the reverse order of their registration.
HandlersRun(p) ==
  IF LeftByExit(p)
    THEN [i \in 1..(Len(atexitList) - exitPos[p]) |->
            atexitList[Len(atexitList) + 1 - i]]
    ELSE << >>

\* What one exit handler does, in the order of its statements: "signal" is
\* kill( child_pids, SIGTERM ), "restore" a tty_reset(), "release" the
\* free() of the relay buffers. cleanup() of tcat.c and the tail of
\* cleanup() of main.c free argument strings, no relay buffer; _bfrees
\* releases something only when p has allocated a relay buffer.
HandlerEvents(p, h) ==
  CASE h = "cleanup"        -> (IF child_pids > 0 THEN << "signal" >> ELSE << >>)
                                 \o (IF 0 = detached THEN << "restore" >> ELSE << >>)
    [] h = "restore_stdin"  -> << "restore" >>
    [] h = "restore_device" -> << "restore" >>
    [] h = "tcat_cleanup"   -> << >>
    [] h = "_bfrees"        -> (IF lds_buffer[p] # "NULL" \/ lds_tbuf[p] # "NULL"
                                  THEN << "release" >> ELSE << >>)

RECURSIVE Flatten(_, _)
Flatten(p, hs) ==
  IF hs = << >> THEN << >>
  ELSE HandlerEvents(p, Head(hs)) \o Flatten(p, Tail(hs))

\* the cleanup actions p has performed at its exit, in order
ExitEvents(p) == Flatten(p, HandlersRun(p))

\* place of a cleanup action in the order signal, restore, release
Rank(e) == CASE e = "signal" -> 1 [] e = "restore" -> 2 [] e = "release" -> 3

\* C22: of the cleanup actions a process of pty or tcat performs at its
\* exit, a termination signal never follows a terminal restore or a release
\* of the relay buffers, and a terminal restore never follows the release.
C22_CleanupOrder ==
  \A p \in Procs :
    LET ev == ExitEvents(p) IN
      \A i, j \in 1..Len(ev) : i < j => Rank(ev[i]) <= Rank(ev[j])


\* ------------------------------------------------------ the relay buffers

\* p holds a block for the buffer named b: loop_duplex_stdio allocated it in
\* p, or p is the forked child and has the copy of its parent's block.
Allocated(p, b) ==
  IF b = "lds_buffer" THEN lds_buffer[p] # "NULL" ELSE
    (lds_tbuf[p] # "NULL" \/ freed[p].lds_tbuf > 0)

LdsBuffers == {"lds_buffer", "lds_tbuf"}

\* C23: no relay buffer of loop_duplex_stdio is released twice, and when a
\* process that allocated one has left through exit() (return and exit,
\* SIGINT, fatal error) and all its exit handlers have run, the buffer has
\* been released exactly once.
C23_BuffersReleasedOnce ==
  prog = "tcat" =>
    \A p \in Procs : \A b \in LdsBuffers :
      /\ freed[p][b] <= 1
      /\ (pc[p] = "dead" /\ LeftByExit(p) /\ Allocated(p, b)
            /\ "_bfrees" \in {atexitList[i] : i \in 1..Len(atexitList)})
           => freed[p][b] = 1


\* C24: the pty parent is never gone while the target child that was sent
\* SIGTERM is still unreaped: a signalled target has been waited for before
\* the parent terminates.
C24_SignalledTargetReaped ==
  ~(prog = "pty" /\ pc["parent"] = "dead" /\ LeftByExit("parent")
      /\ target = "signaled")


\* ------------------------------------------------- signal handlers at work

\* A step of p inside the handler sig_int: the handler is entered, or, its
\* exit() never returning, an exit handler runs on the handler's stack.
SigIntRuns(p) ==
  \/ \E s \in {"INT", "TERM"} : sig_int(p, s)
  \/ exitCause[p] \in {"sig_int", "exit_in_exit"} /\ RunExitHandler(p)

\* A step of p inside the handler sig_term
SigTermRuns(p) == \E s \in {"INT", "TERM"} : sig_term(p, s)

\* C25: a step of a signal handler (sig_term, sig_int) changes no terminal
\* state, no file descriptor, no heap memory and no process's liveness;
\* the signal-received flag is all it may change.
C25_HandlersOnlySetFlag ==
  [][\A p \in Procs :
       (SigIntRuns(p) \/ SigTermRuns(p)) =>
         /\ UNCHANGED << stdinTerm, ptyTerm, devTerm, restores, fdOpen,
                         lds_buffer, lds_tbuf, freed, termAttempts, target >>
         /\ (pc'[p] \in {"exiting", "dead"}) = (pc[p] \in {"exiting", "dead"})
    ]_vars


\* the calls of ptym_open that are made after the master was opened
AfterMasterOpened == {PtymCalls[i] : i \in 2..Len(PtymCalls)}

\* C26: when grantpt, unlockpt or ptsname has failed inside ptym_open, the
\* master descriptor is closed again and the caller got -1 (pty_fork_init
\* then ends in err_sys): the process was not terminated inside ptym_open
\* and the master is not left open.
C26_PtymOpenClosesAndReturns ==
  ptym.failed \in AfterMasterOpened =>
    /\ ptym.fdm = "closed"
    /\ exitCause["parent"] = "err_sys"


\* pty has ended in err_sys() before pty_fork_init() was called: the only
\* call that can fail there is tty_save (main.c:219).
FatalAtTtySave ==
  /\ exitCause["parent"] = "err_sys"
  /\ ptym.fdm = "unopened" /\ ptym.failed = "none"
  /\ target = "none"

\* C27: pty started with a standard input that is no terminal does not exit
\* because the snapshot of standard input failed, before the target program
\* is spawned.
C27_NonTtyStdinNotFatal ==
  (prog = "pty" /\ ~stdinIsTty) => ~FatalAtTtySave


\* ================================================ library functions on their own

\* every variable of the programs pty and tcat
mainVars == << cfgVars, relayVars, codecVars, heapVars, texit, ptym, pc,
               nread, nwrite, child_pids, sigcaught_main, sigcaught_pty,
               sigdisp, pendingSig, extSignals, atexitList, exitPos,
               exitCause, target, termAttempts, termSent, stdinTerm, ptyTerm,
               devTerm, snapshot, restores, fdOpen, zeroPhase >>

\* No relay process exists and no translation is under way: the state of the
\* programs while a library function is followed on its own.
ProgramsIdle ==
  /\ prog = "pty"
  /\ translate = 0
  /\ ignore_eof = 0
  /\ interactive = 0
  /\ driver = TRUE
  /\ stdinIsTty = FALSE
  /\ fd_read = 0 - 1
  /\ deviceIsTty = FALSE
  /\ pc = [p \in Procs |-> "unborn"]
  /\ nread = [p \in Procs |-> 0]
  /\ nwrite = [p \in Procs |-> 0]
  /\ child_pids = 0
  /\ sigcaught_main = 0
  /\ sigcaught_pty = 0
  /\ sigdisp = [p \in Procs |-> [INT |-> "default", TERM |-> "default"]]
  /\ pendingSig = [p \in Procs |-> {}]
  /\ extSignals = 0
  /\ atexitList = << >>
  /\ exitPos = [p \in Procs |-> 0]
  /\ exitCause = [p \in Procs |-> "none"]
  /\ target = "none"
  /\ termAttempts = 0
  /\ termSent = [p \in Procs |-> FALSE]
  /\ stdinTerm = "cooked"
  /\ ptyTerm = "ptydefault"
  /\ devTerm = "devdefault"
  /\ snapshot = [s \in Snapshots |-> "unset"]
  /\ restores = [s \in Snapshots |-> 0]
  /\ fdOpen = [p \in Procs |-> {"stdin", "fd_read"}]
  /\ zeroPhase = [p \in Procs |-> 0]
  /\ taken = [p \in Procs |-> 0]
  /\ delivered = [p \in Procs |-> << >>]
  /\ codec_pc = "off"
  /\ codec_u8 = << >>
  /\ codec_str = << >>
  /\ codec_out = << >>
  /\ codec_ret = 0
  /\ texit = [cause |-> "none", status |-> 0]
  /\ lds_buffer = [p \in Procs |-> "NULL"]
  /\ lds_tbuf = [p \in Procs |-> "NULL"]
  /\ freed = [p \in Procs |-> [lds_buffer |-> 0, lds_tbuf |-> 0]]
  /\ ptym = [fdm |-> "unopened", failed |-> "none"]

\* ------------------------------- do_driver_argl() and do_driver_argv()

\* The two functions differ in their exec call only (execlp at pty.c:1513,
\* execvp at pty.c:1579); the statements below are those of both.

\* pipefd[0] is the driver's end of the socket pair, pipefd[1] the caller's
OwnEnd(p) == IF p = "parent" THEN "pipefd1" ELSE "pipefd0"
PeerEnd(p) == IF p = "parent" THEN "pipefd0" ELSE "pipefd1"

\* err_sys() inside do_driver: the process exits
dd_err_sys(p) == dd_pc' = [dd_pc EXCEPT ![p] = "exited"]

\* pty.c:1486  fd_pipe( pipefd ): socketpair()
do_driver_pipe ==
  /\ dd_pc["parent"] = "fd_pipe"
  /\ \/ /\ fdtab' = [fdtab EXCEPT !["parent"].pipefd0 = "sock0",
                                  !["parent"].pipefd1 = "sock1"]
        /\ dd_pc' = [dd_pc EXCEPT !["parent"] = "fork"]
     \/ /\ dd_err_sys("parent")
        /\ UNCHANGED fdtab
  /\ UNCHANGED << mainVars, extraVars, fw, hc, redirect_err, dd_fn >>

\* pty.c:1489  fork(): the driver process starts with a copy of the
\* caller's descriptors
do_driver_fork ==
  /\ dd_pc["parent"] = "fork"
  /\ \/ /\ fdtab' = [fdtab EXCEPT !["driver"] = fdtab["parent"]]
        /\ dd_pc' = [p \in DriverProcs |-> "close_peer"]
     \/ /\ dd_err_sys("parent")
        /\ UNCHANGED fdtab
  /\ UNCHANGED << mainVars, extraVars, fw, hc, redirect_err, dd_fn >>

\* pty.c:1493, pty.c:1518  close( pipefd[1] ) in the driver,
\* close( pipefd[0] ) in the caller
dd_close_peer(p) ==
  /\ dd_pc[p] = "close_peer"
  /\ fdtab' = [fdtab EXCEPT ![p][PeerEnd(p)] = "closed"]
  /\ dd_pc' = [dd_pc EXCEPT ![p] = "dup_err"]
  /\ UNCHANGED << mainVars, extraVars, fw, hc, redirect_err, dd_fn >>

\* pty.c:1495-1499, pty.c:1520-1524  if ( 1 == redirect_err )
\* dup2( own end, STDERR_FILENO ), in the driver and in the caller alike
dd_dup_err(p) ==
  /\ dd_pc[p] = "dup_err"
  /\ IF 1 = redirect_err
       THEN \/ /\ fdtab' = [fdtab EXCEPT ![p].stderr = fdtab[p][OwnEnd(p)]]
               /\ dd_pc' = [dd_pc EXCEPT ![p] = "dup_in"]
            \/ /\ dd_err_sys(p)
               /\ UNCHANGED fdtab
       ELSE /\ dd_pc' = [dd_pc EXCEPT ![p] = "dup_in"]
            /\ UNCHANGED fdtab
  /\ UNCHANGED << mainVars, extraVars, fw, hc, redirect_err, dd_fn >>

\* pty.c:1501, pty.c:1526  dup2( own end, STDIN_FILENO )
dd_dup_in(p) ==
  /\ dd_pc[p] = "dup_in"
  /\ \/ /\ fdtab' = [fdtab EXCEPT ![p].stdin = fdtab[p][OwnEnd(p)]]
        /\ dd_pc' = [dd_pc EXCEPT ![p] = "dup_out"]
     \/ /\ dd_err_sys(p)
        /\ UNCHANGED fdtab
  /\ UNCHANGED << mainVars, extraVars, fw, hc, redirect_err, dd_fn >>

\* pty.c:1505, pty.c:1530  dup2( own end, STDOUT_FILENO )
dd_dup_out(p) ==
  /\ dd_pc[p] = "dup_out"
  /\ \/ /\ fdtab' = [fdtab EXCEPT ![p].stdout = fdtab[p][OwnEnd(p)]]
        /\ dd_pc' = [dd_pc EXCEPT ![p] = "close_own"]
     \/ /\ dd_err_sys(p)
        /\ UNCHANGED fdtab
  /\ UNCHANGED << mainVars, extraVars, fw, hc, redirect_err, dd_fn >>

\* pty.c:1509, pty.c:1534  the own end, which is neither descriptor 0 nor 1,
\* is closed
dd_close_own(p) ==
  /\ dd_pc[p] = "close_own"
  /\ fdtab' = [fdtab EXCEPT ![p][OwnEnd(p)] = "closed"]
  /\ dd_pc' = [dd_pc EXCEPT ![p] = "last"]
  /\ UNCHANGED << mainVars, extraVars, fw, hc, redirect_err, dd_fn >>

\* pty.c:1513-1514  driver: execlp() / execvp() (pty.c:1579); when it
\* returns, err_sys()
dd_exec ==
  /\ dd_pc["driver"] = "last"
  /\ \/ dd_pc' = [dd_pc EXCEPT !["driver"] = "running"]
     \/ dd_err_sys("driver")
  /\ UNCHANGED << mainVars, extraVars, fw, hc, redirect_err, dd_fn, fdtab >>

\* pty.c:1541  caller: return( ret )
dd_return ==
  /\ dd_pc["parent"] = "last"
  /\ dd_pc' = [dd_pc EXCEPT !["parent"] = "returned"]
  /\ UNCHANGED << mainVars, extraVars, fw, hc, redirect_err, dd_fn, fdtab >>

\* the descriptors of a process started from a shell
UserFds == [stdin |-> "user_in", stdout |-> "user_out", stderr |-> "user_err",
            pipefd0 |-> "closed", pipefd1 |-> "closed"]

\* main.c:289, tcat.c:256  the caller enters do_driver_argl (do_driver_argv
\* has no caller in the programs) with redirect_err 0 or 1
InitDriver ==
  /\ ProgramsIdle
  /\ ExtraIdle
  /\ redirect_err \in {0, 1}
  /\ dd_fn \in {"do_driver_argl", "do_driver_argv"}
  /\ FwIdle
  /\ HcIdle
  /\ dd_pc = [p \in DriverProcs |-> IF p = "parent" THEN "fd_pipe" ELSE "unborn"]
  /\ fdtab = [p \in DriverProcs |->
                IF p = "parent" THEN UserFds
                ELSE [stdin |-> "closed", stdout |-> "closed",
                      stderr |-> "closed", pipefd0 |-> "closed",
                      pipefd1 |-> "closed"]]

NextDriver ==
  \/ do_driver_pipe
  \/ do_driver_fork
  \/ \E p \in DriverProcs : dd_close_peer(p)
  \/ \E p \in DriverProcs : dd_dup_err(p)
  \/ \E p \in DriverProcs : dd_dup_in(p)
  \/ \E p \in DriverProcs : dd_dup_out(p)
  \/ \E p \in DriverProcs : dd_close_own(p)
  \/ dd_exec
  \/ dd_return

SpecDriver == InitDriver /\ [][NextDriver]_vars

\* C28: in the caller of do_driver_argl / do_driver_argv standard error
\* refers to what it referred to before the call, whatever redirect_err is;
\* when the caller has returned, its standard input and standard output
\* both refer to its end of the socket pair and the pair's own descriptors
\* are closed.
C28_ParentStderrUnchanged ==
  /\ fdtab["parent"].stderr = UserFds.stderr
  /\ dd_pc["parent"] = "returned" =>
       /\ fdtab["parent"].stdin = "sock1"
       /\ fdtab["parent"].stdout = "sock1"
       /\ fdtab["parent"].pipefd0 = "closed"
       /\ fdtab["parent"].pipefd1 = "closed"


\* ------------------------------------------------------------ full_write()

\* longest buffer handed to full_write
MaxWriteLen == 3

\* byte values of the buffers written and of the files read
DataBytes == {65, 66}

\* pty.c:425-430  full_write( fd, buf, len ) is entered: cc = 0, total = 0,
\* remaining = len; the file behind fd (out, failed) keeps its history
full_write_call(data) ==
  [fw EXCEPT !.arg = data, !.buf = data, !.len = Len(data),
             !.remaining = Len(data), !.total = 0, !.cc = 0, !.ret = 0,
             !.pc = "while"]

\* pty.c:431-447  one pass of  while ( remaining > 0 )  or the final return
full_write_step ==
  /\ fw.pc = "while"
  /\ IF fw.remaining > 0
       THEN \E cc \in WriteResults(fw.remaining) :
              IF cc < 0
                THEN fw' = [fw EXCEPT !.cc = cc,
                                      !.ret = IF fw.total > 0 THEN fw.total
                                              ELSE cc,
                                      !.failed = fw.failed + 1,
                                      !.pc = "returned"]
                ELSE fw' = [fw EXCEPT
                              !.cc = cc,
                              !.out = fw.out \o SubSeq(fw.buf, 1, cc),
                              !.total = fw.total + cc,
                              !.buf = SubSeq(fw.buf, cc + 1, Len(fw.buf)),
                              !.remaining = fw.remaining - cc]
       ELSE fw' = [fw EXCEPT !.ret = fw.total, !.pc = "returned"]
  /\ UNCHANGED << mainVars, extraVars, driverVars, hc >>

\* full_write is called with any buffer of up to MaxWriteLen bytes on an
\* empty file
InitFullWrite ==
  /\ ProgramsIdle
  /\ ExtraIdle
  /\ DriverIdle
  /\ HcIdle
  /\ \E data \in SeqsUpTo(DataBytes, MaxWriteLen) :
       fw = [arg |-> data, buf |-> data, len |-> Len(data),
             remaining |-> Len(data), total |-> 0, cc |-> 0, pc |-> "while",
             ret |-> 0, out |-> << >>, failed |-> 0]

NextFullWrite == full_write_step

SpecFullWrite == InitFullWrite /\ [][NextFullWrite]_vars

\* C29: when full_write has returned, the value is -1 if a write call
\* failed (cc < 0); otherwise it is len and the file holds every byte of
\* the caller's buffer once and in order.
C29_FullWriteAllOrMinusOne ==
  fw.pc = "returned" =>
    IF fw.cc < 0
      THEN fw.ret = 0 - 1
      ELSE fw.ret = fw.len /\ fw.out = fw.arg


\* ------------------------------------------------------------------ hcat()

\* pty.c:521  #define BIG_BUFFER_SIZE ( 1024*sizeof( char ) ), scaled down:
\* the files below are shorter than, as long as and longer than the buffer
BIG_BUFFER_SIZE == 2

\* most file names in argv
MaxFiles == 2

\* longest input file
MaxFileLen == 3

EXIT_SUCCESS == 0

\* argv: one to MaxFiles files, each of up to MaxFileLen bytes
HcatArgvs ==
  UNION {[1..k -> SeqsUpTo(DataBytes, MaxFileLen)] : k \in 1..MaxFiles}

RECURSIVE Concatenation(_)
\* the bytes of all files in argument order
Concatenation(files) ==
  IF files = << >> THEN << >>
  ELSE Head(files) \o Concatenation(Tail(files))

\* pty.c:452-468  nonblock_immune_read(): one read(); its result is returned
\* when it is >= 0 or errno is not EAGAIN, and with EAGAIN the loop ends at
\* once as errno is not EINTR. The result: -1, 0 at end of file only, or
\* the count of bytes read, at most count and at most what the file has left.
nonblock_immune_read(left, count) ==
  {0 - 1} \cup (IF left = 0 THEN {0}
                ELSE 1..(IF left < count THEN left ELSE count))

\* pty.c:547-550  fd = open_for_read_or_warn_stdin( *argv, verbose );
\* if ( fd < 0 ) goto HCAT_ERROR_OUT (pty.c:599-601)
hcat_open ==
  /\ hc.pc = "open"
  /\ \/ hc' = [hc EXCEPT !.fd = "open", !.pos = 0, !.pc = "read"]
     \/ hc' = [hc EXCEPT !.retval = EXIT_FAILURE, !.pc = "free"]
  /\ UNCHANGED << mainVars, extraVars, driverVars, fw >>

\* pty.c:557-580  nread = nonblock_immune_read( fd, hcat_bigbuf,
\* BIG_BUFFER_SIZE ); if ( nread > 0 ) full_write( fd_concat, hcat_bigbuf,
\* nread ) is entered (a2h and h2a are 0)
hcat_read ==
  /\ hc.pc = "read"
  /\ LET file == hc.argv[hc.argi]
     IN \E n \in nonblock_immune_read(Len(file) - hc.pos, BIG_BUFFER_SIZE) :
          IF n > 0
            THEN LET chunk == SubSeq(file, hc.pos + 1, hc.pos + n)
                 IN /\ hc' = [hc EXCEPT !.nread = n, !.hcat_bigbuf = chunk,
                                        !.pos = hc.pos + n,
                                        !.pc = "full_write"]
                    /\ fw' = full_write_call(chunk)
            ELSE /\ hc' = [hc EXCEPT !.nread = n, !.pc = "while"]
                 /\ UNCHANGED fw
  /\ UNCHANGED << mainVars, extraVars, driverVars >>

\* pty.c:580  nwritten = full_write( ... ) has returned
hcat_written ==
  /\ hc.pc = "full_write"
  /\ fw.pc = "returned"
  /\ hc' = [hc EXCEPT !.nwritten = fw.ret, !.pc = "while"]
  /\ UNCHANGED << mainVars, extraVars, driverVars, fw >>

\* pty.c:588-603  while ( (nread > 0) && (nread < BIG_BUFFER_SIZE) ); after
\* the loop close( fd ), if ( nread < 0 ) goto HCAT_ERROR_OUT, else
\* continue: while ( *++argv )
hcat_while ==
  /\ hc.pc = "while"
  /\ IF (hc.nread > 0) /\ (hc.nread < BIG_BUFFER_SIZE)
       THEN hc' = [hc EXCEPT !.pc = "read"]
       ELSE IF hc.nread < 0
              THEN hc' = [hc EXCEPT !.fd = "closed",
                                    !.retval = EXIT_FAILURE, !.pc = "free"]
              ELSE IF hc.argi < Len(hc.argv)
                     THEN hc' = [hc EXCEPT !.fd = "closed",
                                           !.argi = hc.argi + 1,
                                           !.pc = "open"]
                     ELSE hc' = [hc EXCEPT !.fd = "closed",
                                           !.argi = hc.argi + 1,
                                           !.pc = "free"]
  /\ UNCHANGED << mainVars, extraVars, driverVars, fw >>

\* pty.c:605-612  free( hcat_bigbuf ); hcat_bigbuf = NULL; return retval
hcat_return ==
  /\ hc.pc = "free"
  /\ hc' = [hc EXCEPT !.hcat_bigbuf = "NULL", !.pc = "returned"]
  /\ UNCHANGED << mainVars, extraVars, driverVars, fw >>

\* pty.c:522-531  hcat( fd_concat, argv, 0, 0, verbose ) is entered with
\* fd_concat an empty file
InitHcat ==
  /\ ProgramsIdle
  /\ ExtraIdle
  /\ DriverIdle
  /\ FwIdle
  /\ \E files \in HcatArgvs :
       hc = [argv |-> files, argi |-> 1, fd |-> "closed", pos |-> 0,
             hcat_bigbuf |-> << >>, nread |-> 0, nwritten |-> 0,
             retval |-> EXIT_SUCCESS, pc |-> "open"]

NextHcat ==
  \/ hcat_open
  \/ hcat_read
  \/ full_write_step
  \/ hcat_written
  \/ hcat_while
  \/ hcat_return

SpecHcat == InitHcat /\ [][NextHcat]_vars

\* C30: when hcat has returned success and no write to the target failed,
\* the target holds the concatenation of all input files in argument
\* order, whatever their lengths are against the buffer size.
C30_HcatConcatenatesAll ==
  (hc.pc = "returned" /\ hc.retval = EXIT_SUCCESS /\ fw.failed = 0) =>
    fw.out = Concatenation(hc.argv)


\* ====================================================== daemon start-up

\* every variable of pty, tcat and the library calls modelled above
progVars == << mainVars, driverVars, fw, hc >>

\* main.c:194-217 (pty -b) and pty.c:1805-1824 (the daemon program): the two
\* callers of daemon_already_running. dm.lock is the advisory lock on the
\* PID file ("free", "other", "self"), dm.pidfile whose pid the file holds,
\* dm.fcntl the outcome of this process's lock attempt.
DaemonCallers == {"pty", "daemon"}

\* main.c:198-211, pty.c:1805-1814  cmd is found: in pty cmd = malloc( 128 ),
\* in the daemon program cmd = NULL; if ( 0 == nochr ) cmd =
\* strrchr( argv[0], '/' ); a NULL cmd becomes argv[0], and with any other
\* cmd  while ( c < argc ) cmd++  never ends, as c stays 0
main_cmd ==
  /\ dm.pc = "cmd"
  /\ \E malloced \in {"block", "NULL"} :
       LET cmd0 == IF dm.caller = "pty" THEN malloced ELSE "NULL"
           cmd1 == IF 0 = dm.nochr
                     THEN (IF dm.argv0slash THEN "slash" ELSE "NULL")
                     ELSE cmd0
       IN IF cmd1 = "NULL"
            THEN dm' = [dm EXCEPT !.cmd = "argv0",
                                  !.pc = IF dm.caller = "pty" THEN "dar"
                                         ELSE "daemonize"]
            ELSE dm' = [dm EXCEPT !.cmd = cmd1, !.pc = "spin"]
  /\ UNCHANGED << progVars, tr, nb, nl, cap >>

\* pty.c:1880-1974  daemon_daemonize(): the parent of the fork leaves with
\* exit( 0 ) and the child goes on with daemonized = 1, or err_quit
daemon_daemonize ==
  /\ dm.pc = "daemonize"
  /\ \/ dm' = [dm EXCEPT !.daemonized = 1,
                         !.pc = IF dm.caller = "pty" THEN "started" ELSE "dar"]
     \/ dm' = [dm EXCEPT !.pc = "exited", !.status = "err_quit"]
  /\ UNCHANGED << progVars, tr, nb, nl, cap >>

\* pty.c:2063-2068  if ( 0 == daemonized ) return( 1 )
dar_daemonized ==
  /\ dm.pc = "dar"
  /\ IF 0 = dm.daemonized
       THEN dm' = [dm EXCEPT !.ret = 1, !.pc = "dar_returned"]
       ELSE dm' = [dm EXCEPT !.pc = "dar_open"]
  /\ UNCHANGED << progVars, tr, nb, nl, cap >>

\* pty.c:2070-2074  fd = open( lockf_concat, O_RDWR | O_CREAT ); exit( 1 )
\* when it fails
dar_open ==
  /\ dm.pc = "dar_open"
  /\ \/ dm' = [dm EXCEPT !.pc = "dar_lock"]
     \/ dm' = [dm EXCEPT !.pc = "exited", !.status = "cannot_open"]
  /\ UNCHANGED << progVars, tr, nb, nl, cap >>

\* pty.c:2076-2085, pty.c:1742-1752  _lockfile( fd ): fcntl( F_SETLK ) fails
\* with EACCES or EAGAIN while another process holds the lock: close( fd ),
\* return( 1 ); any other failure is exit( 1 )
dar_lock ==
  /\ dm.pc = "dar_lock"
  /\ \/ /\ dm.lock = "other"
        /\ dm' = [dm EXCEPT !.fcntl = "EAGAIN", !.ret = 1,
                            !.pc = "dar_returned"]
     \/ /\ dm.lock = "free"
        /\ dm' = [dm EXCEPT !.fcntl = "locked", !.lock = "self",
                            !.pc = "dar_write"]
     \/ dm' = [dm EXCEPT !.fcntl = "error", !.pc = "exited",
                         !.status = "cannot_lock"]
  /\ UNCHANGED << progVars, tr, nb, nl, cap >>

\* pty.c:2087-2091  ftruncate( fd, 0 ); the pid is written; return( 0 )
dar_write ==
  /\ dm.pc = "dar_write"
  /\ dm' = [dm EXCEPT !.pidfile = "self", !.ret = 0, !.pc = "dar_returned"]
  /\ UNCHANGED << progVars, tr, nb, nl, cap >>

\* main.c:212-217  if ( 1 == daemon_already_running( nochr ) ) { syslog(
\* "Daemon already running" ); exit( 1 ); } daemon_daemonize( ... );
\* pty.c:1823-1824 in the daemon program, which then goes on
main_already ==
  /\ dm.pc = "dar_returned"
  /\ IF dm.ret # 0
       THEN dm' = [dm EXCEPT !.pc = "exited", !.status = "already_running"]
       ELSE dm' = [dm EXCEPT !.pc = IF dm.caller = "pty" THEN "daemonize"
                                    ELSE "started"]
  /\ UNCHANGED << progVars, tr, nb, nl, cap >>

\* another instance of the daemon takes the lock and writes its pid
other_instance_starts ==
  /\ dm.lock = "free"
  /\ dm' = [dm EXCEPT !.lock = "other", !.pidfile = "other"]
  /\ UNCHANGED << progVars, tr, nb, nl, cap >>

\* the other instance ends: the kernel drops its lock, the file stays
other_instance_ends ==
  /\ dm.lock = "other"
  /\ dm' = [dm EXCEPT !.lock = "free"]
  /\ UNCHANGED << progVars, tr, nb, nl, cap >>

\* main.c:143,159,177 option -b given, option -u or not; pty.c:1682 the
\* static daemonized starts as 0; no other instance runs yet
InitDaemon ==
  /\ ProgramsIdle
  /\ DriverIdle /\ FwIdle /\ HcIdle
  /\ tr = Off /\ nb = Off /\ nl = Off /\ cap = Off
  /\ \E caller \in DaemonCallers, nochr \in {0, 1}, slash \in BOOLEAN :
       dm = [pc |-> "cmd", caller |-> caller, nochr |-> nochr,
             argv0slash |-> slash, cmd |-> "NULL", daemonized |-> 0,
             lock |-> "free", pidfile |-> "none",
             fcntl |-> "untried", ret |-> 0, status |-> "running"]

NextDaemon ==
  \/ main_cmd
  \/ daemon_daemonize
  \/ dar_daemonized
  \/ dar_open
  \/ dar_lock
  \/ dar_write
  \/ main_already
  \/ other_instance_starts
  \/ other_instance_ends

SpecDaemon == InitDaemon /\ [][NextDaemon]_vars

\* C31: daemon_already_running returns 1 only when its lock attempt found
\* the PID file locked by another instance, and returns 0 only with the
\* lock taken and its own pid written; pty -b leaves with "already running"
\* only when another instance held the lock.
C31_AlreadyRunningIffLocked ==
  /\ (dm.pc = "dar_returned" /\ dm.ret = 1) => dm.fcntl = "EAGAIN"
  /\ (dm.pc = "dar_returned" /\ dm.ret = 0) =>
       (dm.lock = "self" /\ dm.pidfile = "self")
  /\ (dm.pc = "exited" /\ dm.status = "already_running") =>
       dm.fcntl = "EAGAIN"


\* ========================== tty_raw_blocking() and tty_raw_timeout()

\* A struct termios: c_iflag, c_lflag, c_oflag and the flag bits of c_cflag
\* as sets of flag names, the CSIZE bits of c_cflag as csize, and the two
\* control characters VMIN and VTIME.

\* values of the c_iflag bits (termios.h of Linux, octal 1, 2, 20, 40, 400)
IFlagBit == [IGNBRK |-> 1, BRKINT |-> 2, INPCK |-> 16, ISTRIP |-> 32,
             ICRNL |-> 256]

RECURSIVE BitOr(_)
\* a | b | ... of distinct flag bits
BitOr(flags) ==
  IF flags = {} THEN 0
  ELSE LET f == CHOOSE x \in flags : TRUE
       IN IFlagBit[f] + BitOr(flags \ {f})

\* a || b in C: 1 when either operand is nonzero, else 0
LogicalOr(a, b) == IF a # 0 \/ b # 0 THEN 1 ELSE 0

\* the flags of c_iflag that are bits of the mask value
IFlagsIn(mask) == {f \in DOMAIN IFlagBit : (mask \div IFlagBit[f]) % 2 = 1}

\* cc_t is an unsigned char: a control character keeps the low 8 bits
cc_t(v) == v % (2 ^ 8)

\* pty.c:1095-1110  _tty_raw( tt )
_tty_raw(tt) ==
  [tt EXCEPT !.c_iflag = tt.c_iflag \ {"ICRNL", "INPCK", "ISTRIP", "BRKINT"},
             !.c_lflag = tt.c_lflag \ {"ICANON", "ISIG", "IEXTEN"},
             !.c_cflag = tt.c_cflag \ {"PARENB", "CRTSCTS"},
             !.csize = "CS8",
             !.c_oflag = tt.c_oflag \ {"OPOST"}]

\* pty.c:1121-1130  _tty_raw_check( tt ): the first mask is written
\* (ICRNL | INPCK | ISTRIP || BRKINT), which C reads as
\* ((ICRNL | INPCK | ISTRIP) || BRKINT)
_tty_raw_check(tt) ==
  LET imask == LogicalOr(BitOr({"ICRNL", "INPCK", "ISTRIP"}),
                         IFlagBit["BRKINT"])
  IN IF \/ tt.c_iflag \cap IFlagsIn(imask) # {}
        \/ tt.c_lflag \cap {"ICANON", "ISIG", "IEXTEN"} # {}
        \/ ~(tt.csize = "CS8" /\ tt.c_cflag \cap {"PARENB", "CRTSCTS"} = {})
        \/ tt.c_oflag \cap {"OPOST"} # {}
       THEN 0 - 1
       ELSE 0

TIMEOUT_GRANULARITY == 100

\* pty.c:1188-1196  tr = timeout % TIMEOUT_GRANULARITY; to = timeout - tr;
\* if ( tr > 0 ) to += TIMEOUT_GRANULARITY; to /= TIMEOUT_GRANULARITY
ScaledTimeout(timeout) ==
  LET r == timeout % TIMEOUT_GRANULARITY
      t == timeout - r
  IN (IF r > 0 THEN t + TIMEOUT_GRANULARITY ELSE t) \div TIMEOUT_GRANULARITY

\* the value the function asks for in VMIN and in VTIME, before it is
\* stored in a cc_t
WantedCc(fn, arg) ==
  IF fn = "tty_raw_blocking" THEN [VMIN |-> arg, VTIME |-> 0]
  ELSE [VMIN |-> 0, VTIME |-> ScaledTimeout(arg)]

\* settings a terminal can have when the function is called
StartTermios ==
  [c_iflag : {{"BRKINT", "ICRNL"}, {"IGNBRK", "ICRNL"},
              {"ICRNL", "INPCK", "ISTRIP"}, {}},
   c_lflag : {{"ICANON", "ISIG", "IEXTEN"}, {}},
   csize   : {"CS7", "CS8"},
   c_cflag : {{"PARENB"}, {}},
   c_oflag : {{"OPOST"}, {}},
   VMIN    : {1},
   VTIME   : {0}]

\* main.c:283 tty_raw_blocking( STDIN_FILENO, 0 ); tcat.c:156,224
\* tty_raw_timeout( fdin, timeout ) with timeout from option -t
RawCalls ==
  ({"tty_raw_blocking"} \X {0, 1, 255, 256})
    \cup ({"tty_raw_timeout"} \X {0, 50, 100, 25500, 25501})

\* tcsetattr() reports success when any of the requested changes could be
\* carried out: the settings the terminal can have afterwards
PartlySet(old, new) ==
  {[c_iflag |-> i.c_iflag, c_lflag |-> l.c_lflag, csize |-> c.csize,
    c_cflag |-> c.c_cflag, c_oflag |-> o.c_oflag, VMIN |-> v.VMIN,
    VTIME |-> v.VTIME] : i \in {old, new}, l \in {old, new},
                         c \in {old, new}, o \in {old, new},
                         v \in {old, new}}

\* pty.c:1139-1153, pty.c:1198-1209  tcgetattr( fd, &tflags ), then
\* (tty_raw_blocking only) tbackup = tflags, then _tty_raw( &tflags ) and
\* the two control characters
tty_raw_get ==
  /\ tr.pc = "tcgetattr"
  /\ \/ LET want == WantedCc(tr.fn, tr.arg)
        IN tr' = [tr EXCEPT
                    !.tflags = [_tty_raw(tr.term) EXCEPT
                                  !.VMIN = cc_t(want.VMIN),
                                  !.VTIME = cc_t(want.VTIME)],
                    !.tbackup = IF tr.fn = "tty_raw_blocking" THEN tr.term
                                ELSE tr.tbackup,
                    !.assigned = (tr.fn = "tty_raw_blocking"),
                    !.pc = "tcsetattr"]
     \/ tr' = [tr EXCEPT !.faults = tr.faults \cup {"tcgetattr"},
                         !.ret = 0 - 1, !.pc = "returned"]
  /\ UNCHANGED << progVars, dm, nb, nl, cap >>

\* pty.c:1156-1159, pty.c:1216-1219  tcsetattr( fd, ..., &tflags )
tty_raw_set ==
  /\ tr.pc = "tcsetattr"
  /\ \/ \E now \in PartlySet(tr.term, tr.tflags) :
          tr' = [tr EXCEPT
                   !.term = now,
                   !.changed = TRUE,
                   !.faults = IF now = tr.tflags THEN tr.faults
                              ELSE tr.faults \cup {"partly"},
                   !.pc = "verify"]
     \/ tr' = [tr EXCEPT !.faults = tr.faults \cup {"tcsetattr"},
                         !.ret = 0 - 1, !.pc = "returned"]
  /\ UNCHANGED << progVars, dm, nb, nl, cap >>

\* TTY_RAWB_ERROUT, TTY_RAWT_ERROUT (pty.c:1174-1179, pty.c:1234-1240):
\* tcsetattr( fd, TCSAFLUSH, &tbackup ), unchecked. tty_raw_timeout never
\* assigns tbackup: the terminal takes whatever the stack held, or
\* tcsetattr refuses it and the terminal stays as it is.
Restored(t) ==
  IF t.assigned THEN {t.tbackup} ELSE StartTermios \cup {t.term}

\* pty.c:1162-1179, pty.c:1222-1240  the read-back, the comparison with
\* what was asked for, return( 0 ) or the ERROUT path
tty_raw_verify ==
  /\ tr.pc = "verify"
  /\ \/ LET want == WantedCc(tr.fn, tr.arg)
            chk  == _tty_raw_check(tr.term)
        IN IF (chk # 0) \/ (tr.term.VMIN # want.VMIN)
                        \/ (tr.term.VTIME # want.VTIME)
             THEN \E back \in Restored(tr) :
                    tr' = [tr EXCEPT !.tflags = tr.term, !.chk = chk,
                                     !.checked = TRUE, !.term = back,
                                     !.ret = 0 - 1, !.pc = "returned"]
             ELSE tr' = [tr EXCEPT !.tflags = tr.term, !.chk = chk,
                                   !.checked = TRUE, !.ret = 0,
                                   !.pc = "returned"]
     \/ \E back \in Restored(tr) :
          tr' = [tr EXCEPT !.faults = tr.faults \cup {"tcgetattr"},
                           !.term = back, !.ret = 0 - 1, !.pc = "returned"]
  /\ UNCHANGED << progVars, dm, nb, nl, cap >>

InitTtyRaw ==
  /\ ProgramsIdle
  /\ DriverIdle /\ FwIdle /\ HcIdle
  /\ dm = Off /\ nb = Off /\ nl = Off /\ cap = Off
  /\ \E call \in RawCalls, t \in StartTermios :
       tr = [pc |-> "tcgetattr", fn |-> call[1], arg |-> call[2],
             term |-> t, orig |-> t, tflags |-> "indeterminate",
             tbackup |-> "indeterminate", assigned |-> FALSE,
             chk |-> 0, checked |-> FALSE, changed |-> FALSE,
             faults |-> {}, ret |-> 0]

NextTtyRaw ==
  \/ tty_raw_get
  \/ tty_raw_set
  \/ tty_raw_verify

SpecTtyRaw == InitTtyRaw /\ [][NextTtyRaw]_vars

\* C32: when tty_raw_timeout has returned with every system call having
\* succeeded and applied in full and the raw flags found in place, it has
\* returned 0 with VMIN = 0 and VTIME = the timeout rounded up to tenths of
\* a second: the timeout value alone never makes it return -1.
C32_TimeoutNeverFails ==
  (/\ tr.pc = "returned"
   /\ tr.fn = "tty_raw_timeout"
   /\ tr.faults = {}
   /\ tr.checked
   /\ tr.chk = 0) =>
    /\ tr.ret = 0
    /\ tr.term.VMIN = 0
    /\ tr.term.VTIME = ScaledTimeout(tr.arg)


\* C33: when tty_raw_blocking or tty_raw_timeout has returned -1 after its
\* tcsetattr had changed the terminal, the terminal has the settings it had
\* before the call.
C33_FailureRestoresTerminal ==
  (tr.pc = "returned" /\ tr.ret = 0 - 1 /\ tr.changed) => tr.term = tr.orig

\* every flag that _tty_raw clears is clear in tt and the character size
\* is CS8
RawFlagsClear(tt) ==
  /\ tt.c_iflag \cap {"ICRNL", "INPCK", "ISTRIP", "BRKINT"} = {}
  /\ tt.c_lflag \cap {"ICANON", "ISIG", "IEXTEN"} = {}
  /\ tt.c_cflag \cap {"PARENB", "CRTSCTS"} = {}
  /\ tt.c_oflag \cap {"OPOST"} = {}
  /\ tt.csize = "CS8"

\* C34: _tty_raw_check returns 0 on the settings read back exactly when
\* every flag that _tty_raw clears is clear in them and the character size
\* is CS8, and it returns 0 on the result of _tty_raw (tflags before
\* tcsetattr) for the settings the terminal started with.
C34_RawCheckMatchesRaw ==
  /\ (tr.pc = "returned" /\ tr.checked) =>
       ((tr.chk = 0) <=> RawFlagsClear(tr.tflags))
  /\ tr.pc = "tcsetattr" => _tty_raw_check(tr.tflags) = 0


\* ========================================= nonblock_immune_read(), stepwise

\* pty.c:451-454  nt_timeout = NO_TIMEH_TIMEOUT_LIMIT * 1000000 (two
\* million), scaled down
NtTimeout == 3

\* most bytes asked for and most bytes the descriptor has ready
MaxCount == 3

\* what one read( fd, buf, count ) can give: bytes when some are ready; with
\* none ready EAGAIN on a descriptor in O_NONBLOCK mode and end of file
\* otherwise; EINTR or EIO at any time
ReadOutcomes(ready, count, nonblock) ==
  (IF ready > 0
     THEN {[n |-> k, errno |-> "0"] :
             k \in 1..(IF ready < count THEN ready ELSE count)}
     ELSE IF nonblock THEN {[n |-> 0 - 1, errno |-> "EAGAIN"]}
     ELSE {[n |-> 0, errno |-> "0"]})
    \cup {[n |-> 0 - 1, errno |-> e] : e \in {"EINTR", "EIO"}}

\* pty.c:457-467  one pass of the do-while loop: the read, the early
\* return, nt_timeout--, and the loop condition
nbir_pass ==
  /\ nb.pc = "read"
  /\ \E r \in ReadOutcomes(nb.ready, nb.count, nb.nonblock) :
       IF (r.n >= 0) \/ ("EAGAIN" # r.errno)
         THEN nb' = [nb EXCEPT !.n = r.n, !.errno = r.errno,
                               !.reads = nb.reads + 1,
                               !.ready = IF r.n > 0 THEN nb.ready - r.n
                                         ELSE nb.ready,
                               !.ret = r.n, !.pc = "returned"]
         ELSE IF (r.n < 0) /\ (r.errno = "EINTR") /\ (nb.nt_timeout - 1 > 0)
                THEN nb' = [nb EXCEPT !.n = r.n, !.errno = r.errno,
                                      !.reads = nb.reads + 1,
                                      !.nt_timeout = nb.nt_timeout - 1]
                ELSE nb' = [nb EXCEPT !.n = r.n, !.errno = r.errno,
                                      !.reads = nb.reads + 1,
                                      !.nt_timeout = nb.nt_timeout - 1,
                                      !.ret = r.n, !.pc = "returned"]
  /\ UNCHANGED << progVars, dm, tr, nl, cap >>

\* the other end of the descriptor delivers one more byte
nbir_data_arrives ==
  /\ nb.pc = "read"
  /\ nb.ready < MaxCount
  /\ nb' = [nb EXCEPT !.ready = nb.ready + 1]
  /\ UNCHANGED << progVars, dm, tr, nl, cap >>

\* pty.c:452-455  nonblock_immune_read( fd, buf, count ) is entered
InitNbir ==
  /\ ProgramsIdle
  /\ DriverIdle /\ FwIdle /\ HcIdle
  /\ dm = Off /\ tr = Off /\ nl = Off /\ cap = Off
  /\ \E count \in 1..MaxCount, ready \in 0..(MaxCount - 1),
        nonblock \in BOOLEAN :
       nb = [pc |-> "read", count |-> count, ready |-> ready,
             nonblock |-> nonblock, nt_timeout |-> NtTimeout, n |-> 0 - 1,
             errno |-> "0", reads |-> 0, ret |-> 0]

NextNbir ==
  \/ nbir_pass
  \/ nbir_data_arrives

SpecNbir == InitNbir /\ [][NextNbir]_vars

\* C35: when nonblock_immune_read has returned -1 with errno EAGAIN, it has
\* repeated the read up to its retry limit; after fewer reads it returns -1
\* for other errors only.
C35_EagainIsRetried ==
  (nb.pc = "returned" /\ nb.ret = 0 - 1 /\ nb.errno = "EAGAIN") =>
    nb.reads >= NtTimeout


\* ============== loop_duplex_stdio(): standard input to device, with nolf

\* longest chunk one read of standard input returns
MaxChunkLen == 3

\* chunks the parent loop reads before the input ends
MaxPasses == 2

\* pty.c:47  const char ascii_lf = '\n'; the linefeed and one other byte
ascii_lf == 10

NlBytes == {ascii_lf, 65}

\* chunks a read of standard input can return
NlChunks == SeqsUpTo(NlBytes, MaxChunkLen) \ {<< >>}

\* pty.c:719-722  nread = read( STDIN_FILENO, lds_buffer, bufsize ), and
\* if ( 1 == nolf ) nread -= 1; a read of 0 goes round the loop, -1 ends it
nolf_read ==
  /\ nl.pc = "read"
  /\ \/ /\ nl.passes < MaxPasses
        /\ \E chunk \in NlChunks :
             nl' = [nl EXCEPT !.lds_buffer = chunk,
                              !.nread = IF 1 = nl.nolf THEN Len(chunk) - 1
                                        ELSE Len(chunk),
                              !.passes = nl.passes + 1,
                              !.pc = "write"]
     \/ nl' = [nl EXCEPT !.nread = 0 - 1, !.pc = "after"]
  /\ UNCHANGED << progVars, dm, tr, nb, cap >>

\* pty.c:735, pty.c:414-422  nwrite = write_or_warn( fd_write, lds_buffer,
\* nread ): one write, which may take fewer bytes; err_sys when it fails
nolf_write ==
  /\ nl.pc = "write"
  /\ \/ \E w \in (IF nl.nread = 0 THEN {0} ELSE 1..nl.nread) :
          nl' = [nl EXCEPT !.nwrite = w,
                           !.forwarded = SubSeq(nl.lds_buffer, 1, w),
                           !.device = nl.device \o SubSeq(nl.lds_buffer, 1, w),
                           !.pc = "linefeed"]
     \/ nl' = [nl EXCEPT !.nwrite = 0 - 1, !.pc = "exited"]
  /\ UNCHANGED << progVars, dm, tr, nb, cap >>

\* pty.c:737-739  if ( NULL != linefeed ) write_or_warn( fd_write,
\* &linefeed, lfsize ): the bytes written are those of the pointer, not of
\* the string; then the loop condition (pty.c:717)
nolf_linefeed ==
  /\ nl.pc = "linefeed"
  /\ \/ \E ptr \in [1..nl.lfsize -> NlBytes] :
          nl' = [nl EXCEPT !.device = nl.device \o ptr,
                           !.pc = IF (0 - 1 < nl.nwrite) /\ (0 - 1 < nl.nread)
                                    THEN "read" ELSE "after"]
     \/ /\ nl.lfsize > 0
        /\ nl' = [nl EXCEPT !.pc = "exited"]
  /\ UNCHANGED << progVars, dm, tr, nb, cap >>

\* tcat.c:151,265  loop_duplex_stdio( ..., ignorelf, newnl ) without
\* translation; the parent is at the head of its loop
InitNolf ==
  /\ ProgramsIdle
  /\ DriverIdle /\ FwIdle /\ HcIdle
  /\ dm = Off /\ tr = Off /\ nb = Off /\ cap = Off
  /\ \E nolf \in {0, 1}, lfsize \in {0, 1} :
       nl = [pc |-> "read", nolf |-> nolf, lfsize |-> lfsize,
             lds_buffer |-> << >>, nread |-> 0, nwrite |-> 0,
             forwarded |-> << >>, device |-> << >>, passes |-> 0]

NextNolf ==
  \/ nolf_read
  \/ nolf_write
  \/ nolf_linefeed

SpecNolf == InitNolf /\ [][NextNolf]_vars

\* C36: with nolf set, when a chunk read from standard input has been
\* written in one piece, the device was handed the chunk without its last
\* byte if that byte is a linefeed, and the whole chunk otherwise.
C36_NolfDropsOnlyLinefeed ==
  (nl.pc = "linefeed" /\ nl.nolf = 1 /\ nl.nwrite = nl.nread) =>
    nl.forwarded =
      (IF nl.lds_buffer[Len(nl.lds_buffer)] = ascii_lf
         THEN SubSeq(nl.lds_buffer, 1, Len(nl.lds_buffer) - 1)
         ELSE nl.lds_buffer)


\* ============== capture: the receive loop and rematch()

\* longest exit text drawn from the alphabet below
MaxExitLen == 3

\* bytes the device delivers before it goes silent
MaxReceived == 6

\* largest timeout, in units of TIMEOUT_GRANULARITY
MaxTimeoutLoop == 2

\* part_001:45-47
RETURN_MATCH == 0
RETURN_TIMEOUT == 1
RETURN_ERROR == 2

\* bytes read from the device: 'a', 'b', 'c'
CapBytes == {97, 98, 99}

\* argv[n] after -e (part_001:203): a C string, so without NUL; the example
\* of part_001:376 is among them
ExitTexts ==
  (SeqsUpTo({97, 98}, MaxExitLen) \ {<< >>}) \cup {<< 97, 98, 97, 99 >>}

\* the char at index i (from 0) of a C string s; the terminator past its end
CharAt(s, i) == IF i < Len(s) THEN s[i + 1] ELSE 0

\* strncmp( s1, s2, cnt ) of the C library on two char sequences: 0 if equal
\* in the first cnt chars or up to a common NUL
RECURSIVE strncmp(_, _, _)
strncmp(s1, s2, cnt) ==
  IF cnt = 0 THEN 0
  ELSE LET a == CharAt(s1, 0)
           b == CharAt(s2, 0)
       IN IF a # b THEN a - b
          ELSE IF a = 0 THEN 0
          ELSE strncmp(SubSeq(s1, 2, Len(s1)), SubSeq(s2, 2, Len(s2)), cnt - 1)

\* part_001:121-131  the passes n, n+1, ... of the for loop of rematch; buf is
\* the whole hide buffer, the result its new content and the return value
RECURSIVE rematch_from(_, _, _, _)
rematch_from(pattern, buf, current, n) ==
  IF n > current THEN [buf |-> buf, ret |-> n]
  ELSE IF strncmp(SubSeq(buf, n + 1, Len(buf)), pattern, current - n) = 0
       THEN [buf |-> [m \in 1..Len(buf) |->
                        IF m <= current - n THEN buf[n + m]
                        ELSE IF m = current - n + 1 THEN 0
                        ELSE buf[m]],
             ret |-> current - n]
       ELSE rematch_from(pattern, buf, current, n + 1)

\* A rematch that throws the whole hide buffer away after a mismatch.
rematch_Discard(pattern, buf, current) == [buf |-> buf, ret |-> 0]

\* part_001:117-134  unsigned int rematch( pattern, buf, current )
rematch(pattern, buf, current) == rematch_from(pattern, buf, current, 1)

\* part_001:328-331  the counter of the timeout loop
timeout_loop_of(timeout_arg) ==
  IF timeout_arg >= TIMEOUT_GRANULARITY
    THEN timeout_arg \div TIMEOUT_GRANULARITY
    ELSE 1

\* part_001:389-404  read returns 0: count down, RETURN_TIMEOUT at zero
capture_read_nothing ==
  /\ cap.pc = "loop"
  /\ cap' = [cap EXCEPT !.timeout_loop = cap.timeout_loop - 1,
                        !.empty_reads = cap.empty_reads + 1,
                        !.ret = IF cap.timeout_loop - 1 # 0 THEN cap.ret
                                ELSE RETURN_TIMEOUT,
                        !.pc = IF cap.timeout_loop - 1 # 0 THEN "loop"
                               ELSE "returned"]
  /\ UNCHANGED << progVars, dm, tr, nb, nl >>

\* part_001:389-393  read fails: RETURN_ERROR
capture_read_error ==
  /\ cap.pc = "loop"
  /\ cap' = [cap EXCEPT !.ret = RETURN_ERROR, !.pc = "returned"]
  /\ UNCHANGED << progVars, dm, tr, nb, nl >>

\* part_001:389, 405-430  read returns one char c, with an exit text given
capture_read_char ==
  /\ cap.pc = "loop"
  /\ Len(cap.received) < MaxReceived
  /\ \E c \in CapBytes :
       LET got == Append(cap.received, c)
       IN IF c = CharAt(cap.exit_text, cap.hide_idx)
            THEN LET idx == cap.hide_idx + 1
                 IN cap' = [cap EXCEPT
                       !.received = got,
                       !.hide_text = [cap.hide_text EXCEPT ![idx] = c],
                       !.hide_idx = idx,
                       !.ret = IF idx = Len(cap.exit_text) THEN RETURN_MATCH
                               ELSE cap.ret,
                       !.pc = IF idx = Len(cap.exit_text) THEN "returned"
                              ELSE "loop"]
          ELSE IF cap.hide_idx # 0
            THEN LET idx == cap.hide_idx + 1
                     r == rematch(cap.exit_text,
                                  [cap.hide_text EXCEPT ![idx] = c], idx)
                 IN cap' = [cap EXCEPT !.received = got,
                                       !.hide_text = r.buf,
                                       !.hide_idx = r.ret,
                                       !.rematched = TRUE]
            ELSE cap' = [cap EXCEPT !.received = got]
  /\ UNCHANGED << progVars, dm, tr, nb, nl >>

\* part_001:139-148, 314-331  capture -t timeout_arg -e exit_text at the head
\* of the receive loop: hide_text = malloc( strlen( exit_text ) + 1 ) with its
\* last char set to NUL, hide_idx = 0
InitCapture ==
  /\ ProgramsIdle
  /\ DriverIdle /\ FwIdle /\ HcIdle
  /\ dm = Off /\ tr = Off /\ nb = Off /\ nl = Off
  /\ \E exit_text \in ExitTexts, k \in 0..MaxTimeoutLoop :
       cap = [pc |-> "loop", exit_text |-> exit_text,
              hide_text |-> [m \in 1..(Len(exit_text) + 1) |-> 0],
              hide_idx |-> 0,
              timeout_arg |-> k * TIMEOUT_GRANULARITY,
              timeout_loop |-> timeout_loop_of(k * TIMEOUT_GRANULARITY),
              received |-> << >>, empty_reads |-> 0, rematched |-> FALSE,
              ret |-> RETURN_ERROR]

NextCapture ==
  \/ capture_read_nothing
  \/ capture_read_error
  \/ capture_read_char

SpecCapture == InitCapture /\ [][NextCapture]_vars

\* pattern occurs in text as a contiguous run of chars
Occurs(pattern, text) ==
  \E i \in 0..(Len(text) - Len(pattern)) :
    SubSeq(text, i + 1, i + Len(pattern)) = pattern

C38_NoExitInsideExit ==
  \A p \in Procs : exitCause[p] # "exit_in_exit"


\* ============== ptym_process_stdio: the parent after its loop

\* C39: when the parent loop of ptym_process_stdio has ended, the parent
\* sends SIGTERM to the relay child if and only if no SIGTERM was caught by
\* sig_term: the flag the handler writes is the flag the parent reads, so the
\* child is not signalled when the child itself caused the interruption.
C39_ChildSignalledIffNoSigterm ==
  [][(pc["parent"] = "p_after" /\ pc'["parent"] = "p_chk") =>
       (termSent'["parent"] <=> sigcaught_pty = 0)
    ]_vars

====
